---- MODULE Spec2Model ----
(***************************************************************************)
(* NexaSales: EVC calculation, priority scoring and the eight-stage        *)
(* segmentation workflow, modelled from the Python sources.                *)
(*                                                                         *)
(* Python floats are modelled as exact rationals <<numerator,denominator>> *)
(* in lowest terms with a positive denominator, so the arithmetic of the   *)
(* model is the real-number arithmetic the float code approximates.        *)
(* Japanese string literals of the source are romanised.                   *)
(***************************************************************************)
EXTENDS Integers, Sequences, FiniteSets, TLC

VARIABLES
    \* ---- priority scorer (priority_evaluation.py) ----
    integrated_results,   \* the batch handed to calculate_priority_scores
    priority_scores,      \* the list it returns
    prio_pc,              \* "input" | "done" | "raised"
    batch_form,           \* the form the batch was passed in, "not_passed" before
    \* ---- EVC calculator (evc_tools.py) ----
    evc_segment_id,       \* segment_id argument of calculate_evc
    params_dict,          \* the parsed parameter dictionary
    evc_result,           \* the EVCResult returned, or NoResult / Raised
    evc_pc,               \* "input" | "done"
    evc_formula,          \* the formula argument of calculate_evc
    \* ---- workflow (segmentation_workflow.py, main.py) ----
    results,              \* the results dictionary of run_workflow
    wf_pc,                \* "init" | "stage" | "returned" | "written"
    stage,                \* index of the next stage to invoke (1..9)
    invoked,              \* sequence of the stages invoked so far
    now,                  \* the clock read by datetime.now()
    trace_id,             \* the trace id generated for the run
    history,              \* stage outputs as they were recorded
    artifact,             \* what main wrote to output.json
    \* ---- formula customizer (formula_design.py) ----
    fd_segment_id,        \* segment_id argument, a sequence of characters
    base_formula,         \* base_formula_dict, the parsed base formula
    segment_characteristics, \* the segment_characteristics argument
    customized_formula,   \* the formula returned, or NoResult / Raised
    fd_pc,                \* "input" | "done" | "raised"
    validation_result,    \* what validate_formula returned, or NoResult
    \* ---- market potential estimator (market_potential.py) ----
    mp_segment_id,        \* segment_id argument
    mp_evc_result,        \* evc_result argument as json.loads sees it
    mp_segment_info,      \* segment_info argument as json.loads sees it
    company_estimate,     \* the triple of estimate_companies_with_ai
    estimator_calls,      \* the estimators invoked so far, in order
    mp_result,            \* the value returned, or NoResult / Raised
    mp_pc,                \* "called" | "companies" | "acquisition" |
                          \* "returned" | "raised"
    \* ---- report assembler (priority_evaluation_part2.py) ----
    report_segments,      \* the segments of the integrated_results argument
    report_scores,        \* the priority_scores argument
    report_strategies,    \* the segment_strategies argument
    report_plans,         \* the action_plans argument
    report,               \* the report returned, or NoResult / Raised
    earlier_report,       \* the report of the call before, NoResult if none
    rp_pc                 \* "input" | "done" | "raised"

prio_vars == <<integrated_results, priority_scores, prio_pc, batch_form>>
evc_vars  == <<evc_segment_id, params_dict, evc_result, evc_pc, evc_formula>>
wf_vars   == <<results, wf_pc, stage, invoked, now, trace_id, history, artifact>>
fd_vars   == <<fd_segment_id, base_formula, segment_characteristics,
               customized_formula, fd_pc, validation_result>>
mp_vars   == <<mp_segment_id, mp_evc_result, mp_segment_info, company_estimate,
               estimator_calls, mp_result, mp_pc>>
rp_vars   == <<report_segments, report_scores, report_strategies, report_plans,
               report, earlier_report, rp_pc>>
vars      == <<prio_vars, evc_vars, wf_vars, fd_vars, mp_vars, rp_vars>>

\* ------------------------------------------------------------------------
\* Bounds of the model
\* ------------------------------------------------------------------------
MaxBatch == 2

\* ------------------------------------------------------------------------
\* Rational arithmetic standing for Python float arithmetic
\* ------------------------------------------------------------------------
Abs(x) == IF x < 0 THEN -x ELSE x

RECURSIVE GCD(_, _)
GCD(a, b) == IF b = 0 THEN a ELSE GCD(b, a % b)

Rat(n, d) ==
    LET s == IF d < 0 THEN -1 ELSE 1
        g == GCD(Abs(n), Abs(d))
    IN  IF n = 0 THEN <<0, 1>> ELSE <<(s * n) \div g, (s * d) \div g>>

RInt(n)    == <<n, 1>>
RAdd(x, y) == Rat(x[1] * y[2] + y[1] * x[2], x[2] * y[2])
RSub(x, y) == Rat(x[1] * y[2] - y[1] * x[2], x[2] * y[2])
RMul(x, y) == Rat(x[1] * y[1], x[2] * y[2])
RDiv(x, y) == Rat(x[1] * y[2], x[2] * y[1])
RLe(x, y)  == x[1] * y[2] <= y[1] * x[2]
RLt(x, y)  == x[1] * y[2] < y[1] * x[2]
RGe(x, y)  == RLe(y, x)
RGt(x, y)  == RLt(y, x)
RMin(x, y) == IF RLe(x, y) THEN x ELSE y
RMax(x, y) == IF RGe(x, y) THEN x ELSE y

\* dict.get(key, default)
Get(d, k, default) == IF k \in DOMAIN d THEN d[k] ELSE default

\* max([...]) over a non-empty list of rationals
RECURSIVE MaxOf(_)
MaxOf(s) == IF Len(s) = 1 THEN s[1] ELSE RMax(s[1], MaxOf(Tail(s)))

\* ------------------------------------------------------------------------
\* Priority scorer: calculate_priority_scores (priority_evaluation.py)
\* ------------------------------------------------------------------------
SegmentIds == <<"s1", "s2", "s3", "s4", "s5">>

\* values a segment record of the input batch may carry
EvcValues         == {RInt(-1), RInt(0), RInt(2)}
MarketSizes       == {RInt(0), RInt(2)}
AcquisitionValues == {RInt(0), Rat(1, 2), RInt(1)}
GrowthRates       == {Rat(-5, 100), Rat(5, 100), Rat(20, 100)}

\* weights = {"evc_value": 0.4, "market_size": 0.2,
\*            "acquisition_probability": 0.3, "growth_potential": 0.1}
weights ==
    [evc_value |-> Rat(4, 10), market_size |-> Rat(2, 10),
     acquisition_probability |-> Rat(3, 10), growth_potential |-> Rat(1, 10)]

\* max_evc = max([r.get("evc_value", 0) for r in batch]) if batch else 1
max_evc(batch) ==
    IF batch = <<>> THEN RInt(1)
    ELSE MaxOf([i \in 1..Len(batch) |-> Get(batch[i], "evc_value", RInt(0))])

\* max_market_size = max([r.get("market_size", 0) ...]) if batch else 1
max_market_size(batch) ==
    IF batch = <<>> THEN RInt(1)
    ELSE MaxOf([i \in 1..Len(batch) |-> Get(batch[i], "market_size", RInt(0))])

\* a guard that also lets a zero maximum through to the division
max_is_not_negative(m) == RGe(m, RInt(0))

\* the guard of both ratios: "... if max_evc > 0 else 0"
max_is_positive(m) == RGt(m, RInt(0))

\* x / m raises ZeroDivisionError exactly when it is evaluated with m == 0
zero_division(m) == max_is_positive(m) /\ m[1] = 0

\* calculate_priority_scores raises when a ratio of the loop divides by zero
calculate_priority_scores_raises(batch) ==
    /\ batch # <<>>
    /\ \/ zero_division(max_evc(batch))
       \/ zero_division(max_market_size(batch))

\* the raw value, not divided by the batch maximum
normalized_evc_raw(result, batch) == Get(result, "evc_value", RInt(0))

\* normalized_evc = result.get("evc_value", 0) / max_evc if max_evc > 0 else 0
normalized_evc(result, batch) ==
    IF max_is_positive(max_evc(batch))
    THEN RDiv(Get(result, "evc_value", RInt(0)), max_evc(batch))
    ELSE RInt(0)

\* normalized_market_size = ... / max_market_size if max_market_size > 0 else 0
normalized_market_size(result, batch) ==
    IF max_is_positive(max_market_size(batch))
    THEN RDiv(Get(result, "market_size", RInt(0)), max_market_size(batch))
    ELSE RInt(0)

\* normalized_acquisition = result.get("acquisition_probability", 0)
normalized_acquisition(result) == Get(result, "acquisition_probability", RInt(0))

\* growth_rate = result.get("market_analysis", {}).get("market_growth_rate", 0)
growth_rate(result) ==
    Get(Get(result, "market_analysis", <<>>), "market_growth_rate", RInt(0))

\* the growth ratio without the cap at 1
normalized_growth_unsaturated(result) == RDiv(growth_rate(result), Rat(1, 10))

\* normalized_growth = min(growth_rate / 0.1, 1)
normalized_growth(result) == RMin(RDiv(growth_rate(result), Rat(1, 10)), RInt(1))

\* priority_score = w.evc*n_evc + w.ms*n_ms + w.acq*n_acq + w.growth*n_growth
priority_score(result, batch) ==
    RAdd(RAdd(RAdd(RMul(weights.evc_value, normalized_evc(result, batch)),
                   RMul(weights.market_size, normalized_market_size(result, batch))),
              RMul(weights.acquisition_probability, normalized_acquisition(result))),
         RMul(weights.growth_potential, normalized_growth(result)))

\* thresholds open on the lower bound
priority_rank_strict(score) ==
    IF RGt(score, Rat(8, 10)) THEN "saiyusen"
    ELSE IF RGt(score, Rat(6, 10)) THEN "kouyusen"
    ELSE IF RGt(score, Rat(4, 10)) THEN "chuyusen"
    ELSE IF RGt(score, Rat(2, 10)) THEN "teiyusen"
    ELSE "saiteiyusen"

\* if score >= 0.8: saiyusen (top) elif >= 0.6: kouyusen (high)
\* elif >= 0.4: chuyusen (medium) elif >= 0.2: teiyusen (low)
\* else: saiteiyusen (lowest)
priority_rank(score) ==
    IF RGe(score, Rat(8, 10)) THEN "saiyusen"
    ELSE IF RGe(score, Rat(6, 10)) THEN "kouyusen"
    ELSE IF RGe(score, Rat(4, 10)) THEN "chuyusen"
    ELSE IF RGe(score, Rat(2, 10)) THEN "teiyusen"
    ELSE "saiteiyusen"

\* one entry of score_components
score_component(raw, normalized, weight) ==
    [raw_value |-> raw, normalized_value |-> normalized, weight |-> weight,
     contribution |-> RMul(weight, normalized)]

\* priority_score_info built for one result of the batch
priority_score_info(result, batch) ==
    [segment_id    |-> Get(result, "segment_id", "None"),
     segment_name  |-> Get(result, "segment_name", "None"),
     priority_score |-> priority_score(result, batch),
     priority_rank |-> priority_rank(priority_score(result, batch)),
     score_components |->
        [evc_value |-> score_component(Get(result, "evc_value", RInt(0)),
                          normalized_evc(result, batch), weights.evc_value),
         market_size |-> score_component(Get(result, "market_size", RInt(0)),
                          normalized_market_size(result, batch), weights.market_size),
         acquisition_probability |->
             score_component(Get(result, "acquisition_probability", RInt(0)),
                          normalized_acquisition(result), weights.acquisition_probability),
         growth_potential |-> score_component(growth_rate(result),
                          normalized_growth(result), weights.growth_potential)]]

\* the list appended to in the for loop, in input order
unsorted_scores(batch) ==
    [i \in 1..Len(batch) |-> priority_score_info(batch[i], batch)]

\* insertion that puts x before the entries of equal score (not stable)
RECURSIVE insert_desc_before_ties(_, _)
insert_desc_before_ties(sorted, x) ==
    IF sorted = <<>> THEN <<x>>
    ELSE IF RGt(sorted[1].priority_score, x.priority_score)
         THEN <<sorted[1]>> \o insert_desc_before_ties(Tail(sorted), x)
         ELSE <<x>> \o sorted

\* insertion of x behind every entry whose score is >= x's score
RECURSIVE insert_desc(_, _)
insert_desc(sorted, x) ==
    IF sorted = <<>> THEN <<x>>
    ELSE IF RGe(sorted[1].priority_score, x.priority_score)
         THEN <<sorted[1]>> \o insert_desc(Tail(sorted), x)
         ELSE <<x>> \o sorted

\* priority_scores.sort(key=lambda x: x["priority_score"], reverse=True):
\* list.sort is stable, also with reverse=True
RECURSIVE sort_desc(_)
sort_desc(s) ==
    IF s = <<>> THEN <<>>
    ELSE insert_desc(sort_desc(SubSeq(s, 1, Len(s) - 1)), s[Len(s)])

\* the value of calculate_priority_scores for a batch given as a list
calculate_priority_scores(batch) == sort_desc(unsorted_scores(batch))

\* a segment record of the batch, as integrate_evc_and_market_potential shapes it
SegmentRecord(id, e, m, a, g) ==
    [segment_id |-> id, segment_name |-> id, evc_value |-> e, market_size |-> m,
     acquisition_probability |-> a, market_analysis |-> [market_growth_rate |-> g]]

\* ---- the forms the integrated_results argument arrives in ----------------
\* a list of segment records, a dictionary {"integrated_results": [...]}, a
\* JSON string of the list, a JSON string of the dictionary (what
\* integrate_evc_and_market_potential returns), a string that is not JSON,
\* and the empty string
BatchForms ==
    {"list", "wrapped_dict", "json_list_string", "json_wrapped_string",
     "unparseable_string", "empty_string"}

\* processed_integrated_results: the records the parsing block extracts.  A
\* string is parsed only when it starts with { and ends with }.
processed_integrated_results(form, batch) ==
    IF form \in {"list", "wrapped_dict", "json_wrapped_string"} THEN batch ELSE <<>>

\* the elements "for result in integrated_results" visits: the loops run
\* over the argument itself, so over the records of a list, the keys of a
\* dictionary and the characters of a string
iterated(form, batch) ==
    CASE form = "list" -> batch
      [] form = "wrapped_dict" -> <<"integrated_results">>
      [] form = "json_list_string" -> <<"[">>
      [] form = "json_wrapped_string" -> <<"{">>
      [] form = "unparseable_string" -> <<"n">>
      [] form = "empty_string" -> <<>>

\* result.get(...) on a key or a character: AttributeError
iterates_non_records(form, batch) ==
    form # "list" /\ iterated(form, batch) # <<>>

PrioInit ==
    /\ integrated_results = <<>>
    /\ priority_scores = <<>>
    /\ prio_pc = "input"
    /\ batch_form = "not_passed"

\* the caller assembles the batch, one segment record at a time
AddSegment ==
    /\ prio_pc = "input"
    /\ Len(integrated_results) < MaxBatch
    /\ \E e \in EvcValues, m \in MarketSizes, a \in AcquisitionValues, g \in GrowthRates :
          integrated_results' = Append(integrated_results,
              SegmentRecord(SegmentIds[Len(integrated_results) + 1], e, m, a, g))
    /\ UNCHANGED <<priority_scores, prio_pc, batch_form, evc_vars, wf_vars, fd_vars,
                   mp_vars, rp_vars>>

\* the call of calculate_priority_scores on the assembled batch, passed in
\* one of the forms; a string that is not JSON or is empty holds no segment
CalculatePriorityScores ==
    /\ prio_pc = "input"
    /\ \E form \in BatchForms :
          /\ form \in {"unparseable_string", "empty_string"} => integrated_results = <<>>
          /\ batch_form' = form
          /\ IF iterates_non_records(form, integrated_results)
             THEN priority_scores' = <<>> /\ prio_pc' = "raised"
             ELSE IF calculate_priority_scores_raises(iterated(form, integrated_results))
             THEN priority_scores' = <<>> /\ prio_pc' = "raised"
             ELSE /\ priority_scores' =
                        calculate_priority_scores(iterated(form, integrated_results))
                  /\ prio_pc' = "done"
    /\ UNCHANGED <<integrated_results, evc_vars, wf_vars, fd_vars, mp_vars, rp_vars>>

PrioNext == AddSegment \/ CalculatePriorityScores


\* ------------------------------------------------------------------------
\* Workflow: SegmentationWorkflow.run_workflow (segmentation_workflow.py),
\* call_agent (agent_utils.py) and main (main.py)
\* ------------------------------------------------------------------------
NumStages == 8

\* results[...] key under which each stage's output is stored, in call order
StageKeys ==
    <<"service_analysis", "customer_segments", "reference_products",
      "value_comparisons", "formula_designs", "evc_calculations",
      "market_potentials", "priority_evaluations">>

None == [none |-> TRUE]

\* final outputs an agent run may produce
Outputs == {"out_a", "out_b"}
\* str(e) of the exceptions Runner.run may raise; str(e) may be empty
Messages == {"", "E1", "E2"}
TraceIds == {"trace_1", "trace_2"}

\* what happens inside call_agent: the API key is missing, Runner.run
\* returns a final output, or Runner.run raises
AgentEvents ==
    {[kind |-> "no_api_key"]}
    \cup {[kind |-> "final_output", output |-> o] : o \in Outputs}
    \cup {[kind |-> "raises", message |-> m] : m \in Messages}

\* call_agent: every exception is caught and turned into an error dictionary
call_agent(ev) ==
    CASE ev.kind = "no_api_key" ->
            [error |-> "OPENAI_API_KEY not set", result |-> "api key required"]
      [] ev.kind = "final_output" -> [result |-> ev.output]
      [] ev.kind = "raises" ->
            [error |-> ev.message, result |-> "agent call failed"]

\* _run_agent: None becomes a placeholder without an error field
run_agent(ev) ==
    LET result == call_agent(ev)
    IN  IF result = None
        THEN [result |-> "no response from agent"]
        ELSE result

\* an error check that never fires
error_check_skipped(result) == FALSE

\* dict.get("error") is truthy: the key is present and the string non-empty
HasError(result) == "error" \in DOMAIN result /\ result["error"] # ""

\* d[k] = v on a dictionary
Put(d, k, v) == [x \in DOMAIN d \cup {k} |-> IF x = k THEN v ELSE d[x]]

\* a store that starts over from the bookkeeping keys
record_stage_dropping_earlier(res, key, result) ==
    Put([k \in DOMAIN res \cap {"workflow_id", "started_at", "status"} |-> res[k]],
        key, result)

\* results["service_analysis"] = service_analysis_result, and so on per stage
record_stage(res, key, result) == Put(res, key, result)

\* an early return that leaves the status untouched
fail_stage_keep_running(res, err, t) ==
    Put(Put(res, "error", err), "completed_at", t)

\* results["error"] = ...; results["status"] = "failed";
\* results["completed_at"] = datetime.now().isoformat()
fail_stage(res, err, t) ==
    Put(Put(Put(res, "error", err), "status", "failed"), "completed_at", t)

\* a normal completion that leaves the status untouched
complete_run_still_running(res, t, tid) ==
    Put(Put(res, "completed_at", t), "trace_id", tid)

\* results["status"] = "success"; results["completed_at"] = ...;
\* results["trace_id"] = trace_id
complete_run(res, t, tid) ==
    Put(Put(Put(res, "status", "success"), "completed_at", t), "trace_id", tid)

\* the except branch of run_workflow
abort_run(res, err, t, tid) ==
    Put(Put(Put(Put(res, "error", err), "status", "failed"),
            "completed_at", t), "trace_id", tid)

WfInit ==
    /\ results = <<>>
    /\ wf_pc = "init"
    /\ stage = 1
    /\ invoked = <<>>
    /\ now = 0
    /\ trace_id = "none"
    /\ history = <<>>
    /\ artifact = None

\* run_workflow up to the try block: results and the trace id are set up
StartWorkflow ==
    /\ wf_pc = "init"
    /\ results' = [workflow_id |-> "workflow", started_at |-> now,
                   status |-> "running"]
    /\ \E tid \in TraceIds : trace_id' = tid
    /\ now' = now + 1
    /\ wf_pc' = "stage"
    /\ UNCHANGED <<stage, invoked, history, artifact, prio_vars, evc_vars, fd_vars, mp_vars, rp_vars>>

\* one stage of the try block: the agent is run, its result is stored under
\* the stage key, and the run returns when the result carries an error or
\* when the last stage is through
RunStage ==
    /\ wf_pc = "stage"
    /\ stage <= NumStages
    /\ \E ev \in AgentEvents :
         LET result   == run_agent(ev)
             recorded == record_stage(results, StageKeys[stage], result)
         IN  /\ invoked' = Append(invoked, stage)
             /\ history' = Append(history, result)
             /\ IF HasError(result)
                THEN /\ results' = fail_stage(recorded, result["error"], now)
                     /\ wf_pc' = "returned"
                     /\ now' = now + 1
                     /\ stage' = stage
                ELSE IF stage = NumStages
                THEN /\ results' = complete_run(recorded, now, trace_id)
                     /\ wf_pc' = "returned"
                     /\ now' = now + 1
                     /\ stage' = stage
                ELSE /\ results' = recorded
                     /\ wf_pc' = "stage"
                     /\ now' = now
                     /\ stage' = stage + 1
    /\ UNCHANGED <<trace_id, artifact, prio_vars, evc_vars, fd_vars, mp_vars, rp_vars>>

\* an exception raised inside the try block while the message of the next
\* stage is built (json.dumps of the earlier stage outputs)
WorkflowException ==
    /\ wf_pc = "stage"
    /\ stage >= 2
    /\ stage <= NumStages
    /\ \E m \in Messages :
         results' = abort_run(results, m, now, trace_id)
    /\ now' = now + 1
    /\ wf_pc' = "returned"
    /\ UNCHANGED <<stage, invoked, trace_id, history, artifact, prio_vars, evc_vars, fd_vars, mp_vars, rp_vars>>

\* main: the dictionary run_workflow returned is dumped to output.json
WriteArtifact ==
    /\ wf_pc = "returned"
    /\ artifact' = results
    /\ wf_pc' = "written"
    /\ UNCHANGED <<results, stage, invoked, now, trace_id, history, prio_vars, evc_vars, fd_vars, mp_vars, rp_vars>>

WfNext == StartWorkflow \/ RunStage \/ WorkflowException \/ WriteArtifact


\* ------------------------------------------------------------------------
\* EVC calculator: calculate_evc (tools/evc_tools.py)
\* ------------------------------------------------------------------------
MaxComponents == 2

NoResult == [no_result |-> TRUE]
\* the call ended in an exception (TypeError on arithmetic with None)
Raised == [raised |-> TRUE]

RevenueNames ==
    <<"new_revenue", "retention_revenue", "pricing_revenue", "transaction_revenue">>
CostNames ==
    <<"direct_cost_reduction", "quality_cost_reduction", "risk_cost_reduction",
      "time_cost_reduction">>

\* the calculation_function values each component branches on
Modes(name) ==
    CASE name = "new_revenue" -> {"standard", "saas", "manufacturing", "custom"}
      [] name = "retention_revenue" -> {"standard", "subscription", "custom"}
      [] name = "pricing_revenue" -> {"standard", "premium", "custom"}
      [] name = "transaction_revenue" -> {"standard", "custom"}
      [] name = "direct_cost_reduction" -> {"standard", "cloud_migration", "custom"}
      [] name = "quality_cost_reduction" -> {"standard", "six_sigma", "custom"}
      [] name = "risk_cost_reduction" -> {"standard", "compliance", "custom"}
      [] name = "time_cost_reduction" -> {"standard", "process_improvement", "custom"}

\* the keys tested by  all(k in param_values for k in [...])  per branch
Required(name, mode) ==
    CASE mode = "custom" -> <<"calculated_value">>
      [] name = "new_revenue" /\ mode = "standard" ->
            <<"new_customers", "average_customer_value", "new_products", "product_revenue">>
      [] name = "new_revenue" /\ mode = "saas" ->
            <<"new_customers", "average_arpu", "expansion_revenue">>
      [] name = "new_revenue" /\ mode = "manufacturing" ->
            <<"new_clients", "units_per_client", "unit_price">>
      [] name = "retention_revenue" /\ mode = "standard" ->
            <<"retained_customers", "customer_lifetime_value">>
      [] name = "retention_revenue" /\ mode = "subscription" ->
            <<"churn_reduction", "current_customers", "annual_contract_value">>
      [] name = "pricing_revenue" /\ mode = "standard" ->
            <<"price_increase", "customer_base", "revenue_per_customer">>
      [] name = "pricing_revenue" /\ mode = "premium" ->
            <<"price_premium", "target_segment_size", "revenue_per_customer">>
      [] name = "transaction_revenue" /\ mode = "standard" ->
            <<"transaction_increase", "customer_base", "average_transaction_value">>
      [] name = "direct_cost_reduction" /\ mode = "standard" ->
            <<"manual_hours", "automated_hours", "hourly_rate", "resource_savings">>
      [] name = "direct_cost_reduction" /\ mode = "cloud_migration" ->
            <<"infrastructure_cost_current", "infrastructure_cost_cloud",
              "maintenance_reduction">>
      [] name = "quality_cost_reduction" /\ mode = "standard" ->
            <<"defect_reduction", "defect_cost", "complaint_reduction", "complaint_cost">>
      [] name = "quality_cost_reduction" /\ mode = "six_sigma" ->
            <<"sigma_improvement", "defect_rate_reduction", "quality_cost_per_defect",
              "production_volume">>
      [] name = "risk_cost_reduction" /\ mode = "standard" ->
            <<"risk_reduction_factor", "risk_exposure_value">>
      [] name = "risk_cost_reduction" /\ mode = "compliance" ->
            <<"compliance_penalty_reduction", "incident_probability_reduction",
              "average_incident_cost">>
      [] name = "time_cost_reduction" /\ mode = "standard" ->
            <<"decision_time_savings", "opportunity_cost_rate">>
      [] name = "time_cost_reduction" /\ mode = "process_improvement" ->
            <<"process_time_reduction", "process_frequency", "employee_cost_per_hour">>
      [] OTHER -> <<>>

\* the arithmetic of each branch on the collected param_values
BranchValue(name, mode, pv) ==
    CASE mode = "custom" -> pv["calculated_value"]
      [] name = "new_revenue" /\ mode = "standard" ->
            RAdd(RMul(pv["new_customers"], pv["average_customer_value"]),
                 RMul(pv["new_products"], pv["product_revenue"]))
      [] name = "new_revenue" /\ mode = "saas" ->
            RAdd(RMul(pv["new_customers"], pv["average_arpu"]), pv["expansion_revenue"])
      [] name = "new_revenue" /\ mode = "manufacturing" ->
            RMul(RMul(pv["new_clients"], pv["units_per_client"]), pv["unit_price"])
      [] name = "retention_revenue" /\ mode = "standard" ->
            RMul(pv["retained_customers"], pv["customer_lifetime_value"])
      [] name = "retention_revenue" /\ mode = "subscription" ->
            RMul(RMul(pv["churn_reduction"], pv["current_customers"]),
                 pv["annual_contract_value"])
      [] name = "pricing_revenue" /\ mode = "standard" ->
            RMul(RMul(pv["price_increase"], pv["customer_base"]),
                 pv["revenue_per_customer"])
      [] name = "pricing_revenue" /\ mode = "premium" ->
            RMul(RMul(pv["price_premium"], pv["target_segment_size"]),
                 pv["revenue_per_customer"])
      [] name = "transaction_revenue" /\ mode = "standard" ->
            RMul(RMul(pv["transaction_increase"], pv["customer_base"]),
                 pv["average_transaction_value"])
      [] name = "direct_cost_reduction" /\ mode = "standard" ->
            RAdd(RMul(RSub(pv["manual_hours"], pv["automated_hours"]), pv["hourly_rate"]),
                 pv["resource_savings"])
      [] name = "direct_cost_reduction" /\ mode = "cloud_migration" ->
            RAdd(RSub(pv["infrastructure_cost_current"], pv["infrastructure_cost_cloud"]),
                 pv["maintenance_reduction"])
      [] name = "quality_cost_reduction" /\ mode = "standard" ->
            RAdd(RMul(pv["defect_reduction"], pv["defect_cost"]),
                 RMul(pv["complaint_reduction"], pv["complaint_cost"]))
      [] name = "quality_cost_reduction" /\ mode = "six_sigma" ->
            RMul(RMul(pv["defect_rate_reduction"], pv["quality_cost_per_defect"]),
                 pv["production_volume"])
      [] name = "risk_cost_reduction" /\ mode = "standard" ->
            RMul(pv["risk_reduction_factor"], pv["risk_exposure_value"])
      [] name = "risk_cost_reduction" /\ mode = "compliance" ->
            RAdd(pv["compliance_penalty_reduction"],
                 RMul(pv["incident_probability_reduction"], pv["average_incident_cost"]))
      [] name = "time_cost_reduction" /\ mode = "standard" ->
            RMul(pv["decision_time_savings"], pv["opportunity_cost_rate"])
      [] name = "time_cost_reduction" /\ mode = "process_improvement" ->
            RDiv(RMul(RMul(pv["process_time_reduction"], pv["process_frequency"]),
                      pv["employee_cost_per_hour"]), RInt(60))

Range(s) == {s[i] : i \in DOMAIN s}

\* None where a number is expected (params_dict.get(param) of an absent key)
NoneNumber == <<0, 0>>

\* param_values[param] = params_dict.get(param) for the listed parameters
param_values(config, params) ==
    [p \in Range(Get(config, "parameters", <<>>)) |-> Get(params, p, NoneNumber)]

\* the branch of a component's if/elif chain is entered: calculation_function
\* names a branch and every key the branch tests is in param_values
branch_applies(name, config, params) ==
    LET pv   == param_values(config, params)
        mode == Get(config, "calculation_function", "None")
        req  == Required(name, mode)
    IN  /\ mode \in Modes(name)
        /\ \A i \in DOMAIN req : req[i] \in DOMAIN pv

\* the entered branch multiplies a None: TypeError
branch_raises(name, config, params) ==
    LET pv   == param_values(config, params)
        req  == Required(name, Get(config, "calculation_function", "None"))
    IN  /\ branch_applies(name, config, params)
        /\ \E i \in DOMAIN req : pv[req[i]] = NoneNumber

\* revenue_components[name] = (...) * adjustments["Re"]  (resp. "Co")
component_value(name, config, params, adj) ==
    RMul(BranchValue(name, Get(config, "calculation_function", "None"),
                     param_values(config, params)), adj)

\* the names for which an entry is stored in revenue_components / cost_components
computed_names(names, component_config, params) ==
    {n \in Range(names) : /\ n \in DOMAIN component_config
                          /\ branch_applies(n, component_config[n], params)}

\* for component_name in component_config.get("custom_components", []):
\*     if component_name in parameters and "calculated_value" in its config
custom_names(component_config, params) ==
    {n \in Range(Get(component_config, "custom_components", <<>>)) :
        /\ n \in DOMAIN params
        /\ "calculated_value" \in DOMAIN params[n]}

\* the dictionary revenue_components / cost_components after the if-blocks
\* and the custom-component loop
components_of(names, component_config, params, adj) ==
    [n \in computed_names(names, component_config, params)
           \cup custom_names(component_config, params) |->
        IF n \in custom_names(component_config, params)
        THEN RMul(params[n]["calculated_value"], adj)
        ELSE component_value(n, component_config[n], params, adj)]

\* some if-block of the component dictionary raises
components_raise(names, component_config, params) ==
    \E n \in computed_names(names, component_config, params) :
        branch_raises(n, component_config[n], params)

\* sum(components.values()) if components else 0
RECURSIVE sum_values(_)
sum_values(d) ==
    IF DOMAIN d = {} THEN RInt(0)
    ELSE LET n == CHOOSE m \in DOMAIN d : TRUE
         IN  RAdd(d[n], sum_values([m \in DOMAIN d \ {n} |-> d[m]]))

\* default_adjustments = {"Re": 1.0, "Co": 1.0, "I": 1.0}
default_adjustments == [Re |-> RInt(1), Co |-> RInt(1), I |-> RInt(1)]

\* adjustments = params_dict.get("segment_adjustments", {}).get(segment_id, default)
adjustments_of(segment_id, params) ==
    Get(Get(params, "segment_adjustments", <<>>), segment_id, default_adjustments)

\* the implementation cost added instead of subtracted
evc_value_adding_cost(R, Re, Co, I) == RAdd(RAdd(R, RAdd(Re, Co)), I)

\* evc_value = reference_price + (revenue + cost) - implementation_cost
evc_value_of(R, Re, Co, I) == RSub(RAdd(R, RAdd(Re, Co)), I)

\* recurring_cost * implementation_years with implementation_years None: TypeError
implementation_cost_raises(params) ==
    Get(params, "implementation_years", NoneNumber) = NoneNumber

\* implementation_cost_value = (initial_cost + recurring_cost * years) * adj["I"]
implementation_cost_value(params, adj) ==
    LET initial_cost   == Get(params, "initial_cost", RInt(0))
        recurring_cost == Get(params, "recurring_cost", RInt(0))
        years          == Get(params, "implementation_years", NoneNumber)
    IN  RMul(RAdd(initial_cost, RMul(recurring_cost, years)), adj.I)

\* the call raises instead of returning an EVCResult
calculate_evc_raises(segment_id, params) ==
    \/ components_raise(RevenueNames, Get(params, "revenue_components", <<>>), params)
    \/ components_raise(CostNames, Get(params, "cost_components", <<>>), params)
    \/ implementation_cost_raises(params)

\* segment_names.get(segment_id, "segment " + segment_id)
segment_name_of(segment_id) ==
    CASE segment_id = "s1" -> "enterprise_high_value"
      [] segment_id = "s2" -> "enterprise_low_value"
      [] segment_id = "s3" -> "smb_high_value"
      [] segment_id = "s4" -> "smb_low_value"
      [] OTHER -> "segment"

\* ValueComponent(value=..., calculation_details={total_value, components, adjustment})
value_component(total, comps, adj) ==
    [value |-> total,
     calculation_details |->
        [total_value |-> total, components |-> comps, adjustment |-> adj]]

\* calculate_evc on a parameter dictionary
calculate_evc(segment_id, params) ==
    LET reference_price == Get(params, "reference_price", RInt(0))
        adjustments     == adjustments_of(segment_id, params)
        revenue_components ==
            components_of(RevenueNames, Get(params, "revenue_components", <<>>),
                          params, adjustments.Re)
        cost_components ==
            components_of(CostNames, Get(params, "cost_components", <<>>),
                          params, adjustments.Co)
        implementation_cost == implementation_cost_value(params, adjustments)
    IN  IF calculate_evc_raises(segment_id, params)
        THEN Raised
        ELSE LET revenue_enhancement_value == sum_values(revenue_components)
                 cost_optimization_value   == sum_values(cost_components)
                 evc_value == evc_value_of(reference_price, revenue_enhancement_value,
                                  cost_optimization_value, implementation_cost)
             IN  [segment_id |-> segment_id,
                  segment_name |-> segment_name_of(segment_id),
                  evc_value |-> evc_value,
                  components |->
                     [reference_price |-> reference_price,
                      revenue_enhancement |->
                          value_component(revenue_enhancement_value,
                                          revenue_components, adjustments.Re),
                      cost_optimization |->
                          value_component(cost_optimization_value,
                                          cost_components, adjustments.Co),
                      implementation_cost |-> implementation_cost],
                  calculation_details |->
                     [evc_value |-> evc_value,
                      reference_price |-> reference_price,
                      revenue_enhancement_value |-> revenue_enhancement_value,
                      cost_optimization_value |-> cost_optimization_value,
                      implementation_cost |-> implementation_cost]]


\* ---- the inputs of calculate_evc -----------------------------------------
\* the value each named numeric parameter has when it is supplied
ParameterValue ==
    [new_customers |-> RInt(2),
     average_customer_value |-> RInt(3),
     new_products |-> RInt(1),
     product_revenue |-> RInt(4),
     average_arpu |-> RInt(5),
     expansion_revenue |-> RInt(3),
     new_clients |-> RInt(2),
     units_per_client |-> RInt(2),
     unit_price |-> RInt(3),
     retained_customers |-> RInt(3),
     customer_lifetime_value |-> RInt(2),
     churn_reduction |-> RInt(1),
     current_customers |-> RInt(4),
     annual_contract_value |-> RInt(2),
     price_increase |-> RInt(1),
     customer_base |-> RInt(3),
     revenue_per_customer |-> RInt(2),
     price_premium |-> RInt(2),
     target_segment_size |-> RInt(2),
     transaction_increase |-> RInt(3),
     average_transaction_value |-> RInt(2),
     manual_hours |-> RInt(5),
     automated_hours |-> RInt(2),
     hourly_rate |-> RInt(3),
     resource_savings |-> RInt(1),
     infrastructure_cost_current |-> RInt(6),
     infrastructure_cost_cloud |-> RInt(4),
     maintenance_reduction |-> RInt(2),
     defect_reduction |-> RInt(2),
     defect_cost |-> RInt(3),
     complaint_reduction |-> RInt(1),
     complaint_cost |-> RInt(2),
     sigma_improvement |-> RInt(1),
     defect_rate_reduction |-> RInt(2),
     quality_cost_per_defect |-> RInt(3),
     production_volume |-> RInt(2),
     risk_reduction_factor |-> RInt(1),
     risk_exposure_value |-> RInt(4),
     compliance_penalty_reduction |-> RInt(2),
     incident_probability_reduction |-> RInt(1),
     average_incident_cost |-> RInt(3),
     decision_time_savings |-> RInt(2),
     opportunity_cost_rate |-> RInt(3),
     process_time_reduction |-> RInt(4),
     process_frequency |-> RInt(3),
     employee_cost_per_hour |-> RInt(5),
     calculated_value |-> RInt(7)]

\* segment_adjustments as the formula designer emits them (design_evc_formula)
SegmentAdjustments ==
    [s1 |-> [Re |-> Rat(12, 10), Co |-> Rat(10, 10), I |-> Rat(8, 10)],
     s2 |-> [Re |-> Rat(8, 10),  Co |-> Rat(12, 10), I |-> Rat(9, 10)],
     s3 |-> [Re |-> Rat(13, 10), Co |-> Rat(9, 10),  I |-> Rat(12, 10)],
     s4 |-> [Re |-> Rat(7, 10),  Co |-> Rat(11, 10), I |-> Rat(13, 10)]]

EvcSegments == {"s1", "s3", "s4", "s9"}

EmptyDict == [k \in {} |-> RInt(0)]

\* the scalar parameters a caller may pass
ParameterSets ==
    { EmptyDict,
      [reference_price |-> RInt(15), implementation_years |-> RInt(3),
       initial_cost |-> RInt(5), recurring_cost |-> RInt(1),
       segment_adjustments |-> SegmentAdjustments],
      [reference_price |-> RInt(15), initial_cost |-> RInt(5),
       recurring_cost |-> RInt(1), segment_adjustments |-> SegmentAdjustments],
      [reference_price |-> RInt(15), implementation_years |-> RInt(3),
       initial_cost |-> RInt(5), operation_cost |-> RInt(1)] }

\* how a component configuration lists its parameters and whether the
\* values are supplied in the parameter dictionary
Listings == {"listed_supplied", "listed_missing", "partly_listed"}

AllComponentNames == Range(RevenueNames) \cup Range(CostNames)

\* number of component configurations in the parameter dictionary
configured_count(params) ==
    Cardinality(DOMAIN Get(params, "revenue_components", <<>>))
    + Cardinality(DOMAIN Get(params, "cost_components", <<>>))

\* the dictionary with one more component configuration, and with the
\* parameter values of that component when they are supplied
with_component(params, name, mode, listing) ==
    LET kind   == IF name \in Range(RevenueNames)
                  THEN "revenue_components" ELSE "cost_components"
        req    == Required(name, mode)
        listed == IF listing = "partly_listed"
                  THEN SubSeq(req, 1, Len(req) - 1) ELSE req
        config == [formula |-> name, parameters |-> listed,
                   calculation_function |-> mode]
        withcfg == Put(params, kind, Put(Get(params, kind, <<>>), name, config))
        supplied == IF listing = "listed_missing" THEN {} ELSE Range(req)
    IN  [k \in DOMAIN withcfg \cup supplied |->
            IF k \in supplied THEN ParameterValue[k] ELSE withcfg[k]]

\* the dictionary with a custom revenue or cost component
with_custom_component(params, kind, has_value) ==
    LET cfg == IF has_value
               THEN [formula |-> "custom", calculated_value |-> RInt(2)]
               ELSE [formula |-> "custom"]
        withcfg == Put(params, kind,
                       Put(Get(params, kind, <<>>), "custom_components",
                           <<"custom_component">>))
    IN  Put(withcfg, "custom_component", cfg)

\* the caller adds the configuration of one revenue or cost component
ConfigureComponent ==
    /\ evc_pc = "input"
    /\ configured_count(params_dict) < MaxComponents
    /\ \E name \in AllComponentNames :
         /\ name \notin DOMAIN Get(params_dict, "revenue_components", <<>>)
         /\ name \notin DOMAIN Get(params_dict, "cost_components", <<>>)
         /\ \E mode \in Modes(name), listing \in Listings :
              params_dict' = with_component(params_dict, name, mode, listing)
    /\ UNCHANGED <<evc_segment_id, evc_result, evc_pc, evc_formula, prio_vars, wf_vars, fd_vars, mp_vars, rp_vars>>

\* the caller adds a custom component
ConfigureCustomComponent ==
    /\ evc_pc = "input"
    /\ configured_count(params_dict) < MaxComponents
    /\ "custom_component" \notin DOMAIN params_dict
    /\ \E kind \in {"revenue_components", "cost_components"}, has_value \in BOOLEAN :
         params_dict' = with_custom_component(params_dict, kind, has_value)
    /\ UNCHANGED <<evc_segment_id, evc_result, evc_pc, evc_formula, prio_vars, wf_vars, fd_vars, mp_vars, rp_vars>>

\* the call calculate_evc(segment_id, formula, parameters); the function
\* never reads its formula argument
CalculateEvc ==
    /\ evc_pc = "input"
    /\ evc_result' = calculate_evc(evc_segment_id, params_dict)
    /\ evc_pc' = "done"
    /\ UNCHANGED <<evc_segment_id, params_dict, evc_formula, prio_vars, wf_vars, fd_vars, mp_vars, rp_vars>>

EvcNext == ConfigureComponent \/ ConfigureCustomComponent \/ CalculateEvc

\* ------------------------------------------------------------------------
\* Formula customizer: customize_formula_for_segment and
\* extract_parameter_from_characteristics (nexasales_agents/formula_design.py)
\* Strings are sequences of characters; the kanji of the two markers are
\* romanised one name per character.
\* ------------------------------------------------------------------------
MaxCharacteristics == 2

Digits == {"0", "1", "2", "3", "4", "5", "6", "7", "8", "9"}

DigitValue(c) ==
    CASE c = "0" -> 0 [] c = "1" -> 1 [] c = "2" -> 2 [] c = "3" -> 3
      [] c = "4" -> 4 [] c = "5" -> 5 [] c = "6" -> 6 [] c = "7" -> 7
      [] c = "8" -> 8 [] c = "9" -> 9

\* characters for which str.isdigit() is true: the decimal digits and digit
\* characters that are not decimal, such as the superscript two
DigitCharacters == Digits \cup {"sup2"}

\* str.isdigit(): non-empty and every character a digit character
isdigit(str) == str # <<>> /\ \A i \in DOMAIN str : str[i] \in DigitCharacters

\* int(str) raises ValueError on a character that is not a decimal digit
int_raises(str) == \E i \in DOMAIN str : str[i] \notin Digits

\* int(str) of a string of digits
RECURSIVE int(_)
int(str) ==
    IF str = <<>> THEN 0
    ELSE 10 * int(SubSeq(str, 1, Len(str) - 1)) + DigitValue(str[Len(str)])

\* sub in str
Contains(str, sub) ==
    \E i \in 1..(Len(str) - Len(sub) + 1) : SubSeq(str, i, i + Len(sub) - 1) = sub

\* the marker of an enterprise segment (daikigyou) and of a high-value one
\* (koukachi), three characters each
EnterpriseMarker == <<"dai", "ki", "gyou">>
HighValueMarker  == <<"kou", "ka", "chi">>

\* segment_id.startswith('s') and segment_id[1:].isdigit()
has_numbered_form(segment_id) ==
    /\ segment_id # <<>>
    /\ segment_id[1] = "s"
    /\ isdigit(Tail(segment_id))

\* is_enterprise = segment_num <= 2, else the marker is in the id
is_enterprise_of(segment_id) ==
    IF has_numbered_form(segment_id)
    THEN int(Tail(segment_id)) <= 2
    ELSE Contains(segment_id, EnterpriseMarker)

\* segment_num = int(segment_id[1:]) raises
customize_formula_raises(segment_id) ==
    has_numbered_form(segment_id) /\ int_raises(Tail(segment_id))

\* is_high_value = segment_num % 2 == 1, else the marker is in the id
is_high_value_of(segment_id) ==
    IF has_numbered_form(segment_id)
    THEN int(Tail(segment_id)) % 2 = 1
    ELSE Contains(segment_id, HighValueMarker)

ParameterNames ==
    {"annual_revenue", "annual_cost", "implementation_years",
     "revenue_increase_rate", "cost_reduction_rate", "reference_price",
     "initial_cost", "operation_cost"}

\* the if/elif chain of extract_parameter_from_characteristics below the
\* lookup in characteristics
computed_parameter(parameter_name, is_enterprise, is_high_value, default) ==
    CASE parameter_name = "annual_revenue" ->
            IF is_enterprise
            THEN (IF is_high_value THEN RInt(1000000000) ELSE RInt(800000000))
            ELSE (IF is_high_value THEN RInt(200000000) ELSE RInt(50000000))
      [] parameter_name = "annual_cost" ->
            IF is_enterprise
            THEN (IF is_high_value THEN RInt(500000000) ELSE RInt(400000000))
            ELSE (IF is_high_value THEN RInt(100000000) ELSE RInt(25000000))
      [] parameter_name = "revenue_increase_rate" ->
            IF is_high_value
            THEN (IF is_enterprise THEN Rat(5, 100) ELSE Rat(8, 100))
            ELSE (IF is_enterprise THEN Rat(3, 100) ELSE Rat(2, 100))
      [] parameter_name = "cost_reduction_rate" ->
            IF is_high_value
            THEN (IF is_enterprise THEN Rat(15, 100) ELSE Rat(12, 100))
            ELSE (IF is_enterprise THEN Rat(20, 100) ELSE Rat(10, 100))
      [] parameter_name = "reference_price" -> RInt(15000)
      [] parameter_name = "initial_cost" ->
            IF is_enterprise
            THEN (IF is_high_value THEN RInt(500000) ELSE RInt(400000))
            ELSE (IF is_high_value THEN RInt(200000) ELSE RInt(100000))
      [] parameter_name = "operation_cost" ->
            IF is_enterprise
            THEN (IF is_high_value THEN RInt(10000) ELSE RInt(8000))
            ELSE (IF is_high_value THEN RInt(5000) ELSE RInt(3000))
      [] parameter_name = "implementation_years" -> RInt(3)
      [] OTHER -> default

\* the computed value whether or not characteristics names the parameter
extract_parameter_ignoring_characteristics(characteristics, parameter_name, is_enterprise, is_high_value, default) ==
    computed_parameter(parameter_name, is_enterprise, is_high_value, default)

\* if characteristics and parameter_name in characteristics:
\*     return characteristics[parameter_name]
extract_parameter_from_characteristics(characteristics, parameter_name, is_enterprise, is_high_value, default) ==
    IF parameter_name \in DOMAIN characteristics
    THEN characteristics[parameter_name]
    ELSE computed_parameter(parameter_name, is_enterprise, is_high_value, default)

\* part contains the word
HasWord(part, w) == \E i \in DOMAIN part : part[i] = w

\* the value the loop over the parts leaves under a key: the one set by the
\* last part that names the keyword
RECURSIVE last_setting(_, _, _, _, _)
last_setting(parts, keyword, positive, yes, no) ==
    IF parts = <<>> THEN "None"
    ELSE LET part == parts[Len(parts)]
         IN  IF HasWord(part, keyword)
             THEN (IF \E w \in positive : HasWord(part, w) THEN yes ELSE no)
             ELSE last_setting(SubSeq(parts, 1, Len(parts) - 1),
                               keyword, positive, yes, no)

\* the dictionary built from "label: part, part, ..." (words romanised:
\* yosan budget, houfu rich, takai high, ishikettei decision making,
\* jinsoku fast, IT_literacy)
text_characteristics(parts) ==
    LET budget   == last_setting(parts, "yosan", {"houfu", "takai"}, "high", "low")
        decision == last_setting(parts, "ishikettei", {"jinsoku"}, "fast", "slow")
        literacy == last_setting(parts, "IT_literacy", {"takai"}, "high", "low")
        keys     == {k \in {"budget", "decision_making", "it_literacy"} :
                        CASE k = "budget" -> budget # "None"
                          [] k = "decision_making" -> decision # "None"
                          [] k = "it_literacy" -> literacy # "None"}
    IN  [k \in keys |-> CASE k = "budget" -> budget
                          [] k = "decision_making" -> decision
                          [] k = "it_literacy" -> literacy]

\* characteristics_dict after the parsing block: the loaded JSON object, the
\* dictionary built from a characteristics text, or {} when the input is not
\* a string or JSON parsing failed
characteristics_dict_of(input) ==
    CASE input.form = "json" -> input.dict
      [] input.form = "text" -> text_characteristics(input.parts)
      [] OTHER -> <<>>

\* adjustments = {"R": 1.0, "Re": 1.0 + (0.2 if is_high_value else -0.2), ...}
formula_adjustments(is_enterprise, is_high_value) ==
    [R  |-> RInt(1),
     Re |-> RAdd(RInt(1), IF is_high_value THEN Rat(2, 10) ELSE Rat(-2, 10)),
     Co |-> RAdd(RInt(1), IF ~is_high_value THEN Rat(2, 10) ELSE Rat(-1, 10)),
     I  |-> RAdd(RInt(1), IF ~is_enterprise THEN Rat(2, 10) ELSE Rat(-2, 10))]

\* segment_name by value and barrier
formula_segment_name(is_enterprise, is_high_value) ==
    IF is_high_value /\ is_enterprise THEN "high_value_low_barrier"
    ELSE IF is_high_value /\ ~is_enterprise THEN "high_value_high_barrier"
    ELSE IF ~is_high_value /\ is_enterprise THEN "low_value_low_barrier"
    ELSE "low_value_high_barrier"

\* the justification sentence chosen by the two booleans
justification_of(is_enterprise, is_high_value) ==
    <<IF is_enterprise THEN "enterprise" ELSE "smb",
      IF is_high_value THEN "high_value" ELSE "low_value">>

\* components = base_formula_dict["components"] if present, else {}
base_components(base_formula_dict) == Get(base_formula_dict, "components", <<>>)

\* the base weight taken as it is
formula_component_unadjusted(components, name, description, default_weight, adj) ==
    [description |-> Get(Get(components, name, <<>>), "description", description),
     weight |-> Get(Get(components, name, <<>>), "weight", default_weight)]

\* one entry of customized_formula["components"]
formula_component(components, name, description, default_weight, adj) ==
    [description |-> Get(Get(components, name, <<>>), "description", description),
     weight |-> RMul(Get(Get(components, name, <<>>), "weight", default_weight),
                     adj[name])]

\* the formula customize_formula_for_segment returns
customize_formula_for_segment(segment_id, base_formula_dict, input) ==
    LET is_enterprise == is_enterprise_of(segment_id)
        is_high_value == is_high_value_of(segment_id)
        characteristics_dict == characteristics_dict_of(input)
        adj == formula_adjustments(is_enterprise, is_high_value)
        components == base_components(base_formula_dict)
    IN  [segment_id |-> segment_id,
         segment_name |-> formula_segment_name(is_enterprise, is_high_value),
         segment_type |-> formula_segment_name(is_enterprise, is_high_value),
         base_formula |-> "EVC = R + (Re + Co) - I",
         components |->
            [R  |-> formula_component(components, "R", "reference_price", RInt(1), adj),
             Re |-> formula_component(components, "Re", "revenue_enhancement",
                                      Rat(12, 10), adj),
             Co |-> formula_component(components, "Co", "cost_optimization",
                                      RInt(1), adj),
             I  |-> formula_component(components, "I", "implementation_cost",
                                      Rat(9, 10), adj)],
         segment_specific_parameters |->
            [p \in ParameterNames |->
                extract_parameter_from_characteristics(characteristics_dict, p,
                    is_enterprise, is_high_value,
                    IF p = "implementation_years" THEN RInt(3) ELSE NoneNumber)],
         adjustment_justification |-> justification_of(is_enterprise, is_high_value)]

\* ---- the inputs of customize_formula_for_segment ------------------------
FdSegmentIds ==
    { <<"s", "1">>, <<"s", "2">>, <<"s", "3">>, <<"s", "4">>, <<"s", "0">>,
      <<"s", "1", "0">>, <<"s">>, <<"s", "sup2">>,
      <<"s", "1", "dai", "ki", "gyou">>,
      <<"dai", "ki", "gyou", "-", "kou", "ka", "chi">>,
      <<"dai", "ki", "gyou">>, <<"kou", "ka", "chi">>,
      <<"chuu", "shou">>, <<"dai", "gyou", "ki", "kou", "chi">> }

\* base formulas: unparseable (left {}), the designer's formula, and a
\* formula that gives other weights to two components only
BaseFormulas ==
    { EmptyDict,
      [base_formula |-> "EVC = R + (Re + Co) - I",
       components |-> [R  |-> [description |-> "R", weight |-> RInt(1)],
                       Re |-> [description |-> "Re", weight |-> Rat(12, 10)],
                       Co |-> [description |-> "Co", weight |-> RInt(1)],
                       I  |-> [description |-> "I", weight |-> Rat(9, 10)]]],
      [components |-> [Re |-> [weight |-> RInt(2)], I |-> [weight |-> Rat(1, 2)]]] }

JsonInput(d) == [form |-> "json", dict |-> d, parts |-> <<>>]
TextInput(p) == [form |-> "text", dict |-> EmptyDict, parts |-> p]

\* characteristics inputs before any parameter is supplied
CharacteristicsInputs ==
    { JsonInput(EmptyDict),
      [form |-> "malformed_json", dict |-> EmptyDict, parts |-> <<>>],
      [form |-> "not_a_string", dict |-> EmptyDict, parts |-> <<>>],
      TextInput(<<>>),
      TextInput(<< <<"houfu", "yosan">>, <<"jinsoku", "ishikettei">>,
                   <<"IT_literacy", "takai">> >>),
      TextInput(<< <<"yosan">>, <<"ishikettei">> >>) }

\* values a JSON characteristics object may give to a parameter; null for
\* annual_revenue
SuppliedValues(p) ==
    CASE p = "implementation_years" -> {RInt(5), RInt(0)}
      [] p = "annual_revenue" -> {RInt(7), RInt(-7), NoneNumber}
      [] p \in {"revenue_increase_rate", "cost_reduction_rate"} ->
            {Rat(1, 4), Rat(3, 2)}
      [] OTHER -> {RInt(7), RInt(-7)}

FdInit ==
    /\ fd_segment_id \in FdSegmentIds
    /\ base_formula \in BaseFormulas
    /\ segment_characteristics \in CharacteristicsInputs
    /\ customized_formula = NoResult
    /\ fd_pc = "input"
    /\ validation_result = NoResult

\* the caller's JSON characteristics name one more parameter
SupplyCharacteristic ==
    /\ fd_pc = "input"
    /\ segment_characteristics.form = "json"
    /\ Cardinality(DOMAIN segment_characteristics.dict) < MaxCharacteristics
    /\ \E p \in ParameterNames \ DOMAIN segment_characteristics.dict :
         \E v \in SuppliedValues(p) :
            segment_characteristics' =
                JsonInput(Put(segment_characteristics.dict, p, v))
    /\ UNCHANGED <<fd_segment_id, base_formula, customized_formula, fd_pc,
                   validation_result, prio_vars, evc_vars, wf_vars, mp_vars, rp_vars>>

\* the call customize_formula_for_segment(segment_id, base_formula, characteristics)
CustomizeFormula ==
    /\ fd_pc = "input"
    /\ IF customize_formula_raises(fd_segment_id)
       THEN customized_formula' = Raised /\ fd_pc' = "raised"
       ELSE /\ customized_formula' =
                  customize_formula_for_segment(fd_segment_id, base_formula,
                                                segment_characteristics)
            /\ fd_pc' = "done"
    /\ UNCHANGED <<fd_segment_id, base_formula, segment_characteristics,
                   validation_result, prio_vars, evc_vars, wf_vars, mp_vars, rp_vars>>

\* ---- validate_formula ----------------------------------------------------
\* a value whose str() is also its JSON text: a number is, None is not
prints_as_json(v) == v # NoneNumber

\* formula_dict: str(customized_formula) read back by json.loads, at the
\* second attempt after the replacement of ' by "; a text that holds None
\* does not parse and leaves {}
formula_dict_of(formula) ==
    IF \A p \in DOMAIN formula.segment_specific_parameters :
          prints_as_json(formula.segment_specific_parameters[p])
    THEN formula
    ELSE EmptyDict

\* the issues validate_formula appends
issues_of(formula_dict) ==
    LET components     == Get(formula_dict, "components", EmptyDict)
        segment_params == Get(formula_dict, "segment_specific_parameters", EmptyDict)
    IN  {<<"key_missing", k>> : k \in {"base_formula", "components"} \ DOMAIN formula_dict}
        \cup {<<"component_missing", c>> : c \in {"R", "Re", "Co", "I"} \ DOMAIN components}
        \cup {<<"weight_missing", c>> :
                 c \in {x \in {"R", "Re", "Co", "I"} \cap DOMAIN components :
                           "weight" \notin DOMAIN components[x]}}
        \cup {<<"weight_not_positive", c>> :
                 c \in {x \in {"R", "Re", "Co", "I"} \cap DOMAIN components :
                           /\ "weight" \in DOMAIN components[x]
                           /\ RLe(components[x]["weight"], RInt(0))}}
        \cup {<<"parameter_missing", p>> : p \in ParameterNames \ DOMAIN segment_params}

\* the recommendations for s4 (I weight below 1.2) and s1 (Re weight below 1.1)
recommendations_of(formula_dict) ==
    LET components == Get(formula_dict, "components", EmptyDict)
        id         == Get(formula_dict, "segment_id", <<>>)
    IN  (IF /\ id = <<"s", "4">>
            /\ RLt(Get(Get(components, "I", EmptyDict), "weight", RInt(1)), Rat(12, 10))
         THEN {"raise_I_weight"} ELSE {})
        \cup
        (IF /\ id = <<"s", "1">>
            /\ RLt(Get(Get(components, "Re", EmptyDict), "weight", RInt(1)), Rat(11, 10))
         THEN {"raise_Re_weight"} ELSE {})

\* validation_result: is_valid stays True exactly when no issue is appended
validate_formula(formula_dict) ==
    [is_valid |-> issues_of(formula_dict) = {},
     issues |-> issues_of(formula_dict),
     recommendations |-> recommendations_of(formula_dict)]

\* the call validate_formula(formula) on the string the customizer returned
ValidateFormula ==
    /\ fd_pc = "done"
    /\ "no_result" \in DOMAIN validation_result
    /\ validation_result' = validate_formula(formula_dict_of(customized_formula))
    /\ UNCHANGED <<fd_segment_id, base_formula, segment_characteristics,
                   customized_formula, fd_pc, prio_vars, evc_vars, wf_vars, mp_vars,
                   rp_vars>>

FdNext == SupplyCharacteristic \/ CustomizeFormula \/ ValidateFormula

\* ---- the formula handed on to calculate_evc ------------------------------
\* the formula design_evc_formula returns (tools/evc_tools.py)
design_evc_formula ==
    [base_formula |-> "EVC = R + (Re + Co) - I",
     components |-> [R  |-> [description |-> "R", weight |-> RInt(1)],
                     Re |-> [description |-> "Re", weight |-> Rat(12, 10)],
                     Co |-> [description |-> "Co", weight |-> RInt(1)],
                     I  |-> [description |-> "I", weight |-> Rat(9, 10)]]]

\* the characters of a segment id of the form s<digit>
characters_of(segment_id) ==
    CASE segment_id = "s1" -> <<"s", "1">>
      [] segment_id = "s2" -> <<"s", "2">>
      [] segment_id = "s3" -> <<"s", "3">>
      [] segment_id = "s4" -> <<"s", "4">>
      [] segment_id = "s9" -> <<"s", "9">>

\* the formula the customizer produces for a segment from the designed
\* formula and characteristics that name no parameter
formula_of(segment_id) ==
    customize_formula_for_segment(characters_of(segment_id), design_evc_formula,
                                  JsonInput(EmptyDict))

\* calculate_evc is called for a segment with the parameters the caller
\* passes and the formula customized for that segment
EvcInit ==
    /\ evc_segment_id \in EvcSegments
    /\ params_dict \in ParameterSets
    /\ evc_formula = formula_of(evc_segment_id)
    /\ evc_result = NoResult
    /\ evc_pc = "input"

\* ------------------------------------------------------------------------
\* Market potential estimator: calculate_segment_potential,
\* estimate_companies_with_ai, estimate_acquisition_rate_with_ai
\* (nexasales_agents/market_potential.py).  The chat-completion service is
\* a collaborator whose answer is any of the outcomes listed below.
\* ------------------------------------------------------------------------
\* json.loads of an argument: the object it holds, or a failure
Parsed(d)   == [form |-> "json", dict |-> d]
Unparseable == [form |-> "unparseable", dict |-> EmptyDict]

\* the EVC results handed in: not JSON, without evc_value, with evc_value 0,
\* and with positive, negative and fractional values
EvcResultInputs ==
    { Unparseable,
      Parsed([segment_id |-> "s1"]),
      Parsed([segment_id |-> "s1", evc_value |-> RInt(0)]),
      Parsed([segment_id |-> "s1", evc_value |-> RInt(2)]),
      Parsed([segment_id |-> "s1", evc_value |-> RInt(-3)]),
      Parsed([segment_id |-> "s1", evc_value |-> Rat(1, 2)]) }

SegmentInfoInputs == { Unparseable, Parsed([name |-> "enterprise"]) }

\* a triple as the estimators return it
Triple(lo, mid, hi) == [min |-> lo, expected |-> mid, max |-> hi, logic |-> "logic"]

CompanyCounts    == {RInt(1), RInt(2), RInt(3)}
AcquisitionRates == {Rat(1, 10), Rat(1, 2)}

\* what the service may answer: an exception, content that is not JSON, a
\* JSON object without the key max, or a JSON object with any three values
Responses(values) ==
    { [kind |-> "exception", json |-> EmptyDict],
      [kind |-> "not_json", json |-> EmptyDict],
      [kind |-> "json", json |-> [min |-> RInt(1), expected |-> RInt(1)]] }
    \cup { [kind |-> "json", json |-> Triple(a, b, c)] :
              a \in values, b \in values, c \in values }

\* the except branch of estimate_companies_with_ai
default_companies == Triple(RInt(100), RInt(500), RInt(1000))

\* the except branch of estimate_acquisition_rate_with_ai
default_acquisition_rate == Triple(Rat(5, 100), Rat(15, 100), Rat(30, 100))

\* try: return json.loads(content)  except: return the default triple
estimate_of(response, default) ==
    IF response.kind = "json" THEN response.json ELSE default

\* the check that lets a zero or absent evc_value through
evc_value_check_skipped(evc_data) == FALSE

\* if not evc_data.get("evc_value"): absent, None or zero
evc_value_missing(evc_data) ==
    Get(evc_data, "evc_value", NoneNumber) \in {NoneNumber, RInt(0)}

\* the value returned by the first two return statements, if one applies
early_error(evc_in, info_in) ==
    IF evc_in.form # "json" \/ info_in.form # "json"
    THEN [error |-> "invalid_data_format", message |-> "json_error"]
    ELSE IF evc_value_missing(evc_in.dict)
    THEN [error |-> "evc_value_not_found", message |-> "valid_evc_result_needed"]
    ELSE NoResult

\* the product of the max values used for every potential
potential_from_max(companies, rate, evc_value, X) ==
    RMul(RMul(companies["max"], rate["max"]), evc_value)

\* X_potential = company_estimate[X] * acquisition_rate[X] * evc_value
potential(companies, rate, evc_value, X) ==
    RMul(RMul(companies[X], rate[X]), evc_value)

\* company_estimate[X] or acquisition_rate[X] raises KeyError
potential_raises(companies, rate) ==
    \E X \in {"min", "expected", "max"} : X \notin DOMAIN companies \/ X \notin DOMAIN rate

\* the result dictionary of calculate_segment_potential
segment_potential(segment_id, companies, rate, evc_value) ==
    [segment_id |-> segment_id,
     companies |-> companies,
     acquisition_rate |-> rate,
     evc_value |-> evc_value,
     potential_value |->
        [X \in {"min", "expected", "max"} |-> potential(companies, rate, evc_value, X)],
     calculation_formula |-> "potential = companies x rate x EVC"]

MpInit ==
    /\ mp_segment_id \in {"s1", "s2"}
    /\ mp_evc_result \in EvcResultInputs
    /\ mp_segment_info \in SegmentInfoInputs
    /\ company_estimate = NoResult
    /\ estimator_calls = <<>>
    /\ mp_result = NoResult
    /\ mp_pc = "called"

\* calculate_segment_potential up to its first await: parse both arguments,
\* check evc_value, return the error value or go on to the estimators
ParseAndCheck ==
    /\ mp_pc = "called"
    /\ LET err == early_error(mp_evc_result, mp_segment_info)
       IN  IF err # NoResult
           THEN mp_result' = err /\ mp_pc' = "returned"
           ELSE mp_result' = mp_result /\ mp_pc' = "companies"
    /\ UNCHANGED <<mp_segment_id, mp_evc_result, mp_segment_info, company_estimate,
                   estimator_calls, prio_vars, evc_vars, wf_vars, fd_vars, rp_vars>>

\* await estimate_companies_with_ai(...): the service answers
EstimateCompanies ==
    /\ mp_pc = "companies"
    /\ estimator_calls' = Append(estimator_calls, "estimate_companies_with_ai")
    /\ \E response \in Responses(CompanyCounts) :
          IF response.kind = "exception"
          THEN /\ mp_result' = Raised
               /\ mp_pc' = "raised"
               /\ UNCHANGED company_estimate
          ELSE /\ company_estimate' = estimate_of(response, default_companies)
               /\ mp_pc' = "acquisition"
               /\ UNCHANGED mp_result
    /\ UNCHANGED <<mp_segment_id, mp_evc_result, mp_segment_info,
                   prio_vars, evc_vars, wf_vars, fd_vars, rp_vars>>

\* await estimate_acquisition_rate_with_ai(...), then the potentials and
\* the result
EstimateAcquisitionRate ==
    /\ mp_pc = "acquisition"
    /\ estimator_calls' = Append(estimator_calls, "estimate_acquisition_rate_with_ai")
    /\ \E response \in Responses(AcquisitionRates) :
          LET rate == estimate_of(response, default_acquisition_rate)
          IN  IF response.kind = "exception" \/ potential_raises(company_estimate, rate)
              THEN mp_result' = Raised /\ mp_pc' = "raised"
              ELSE /\ mp_result' = segment_potential(mp_segment_id, company_estimate,
                                      rate, mp_evc_result.dict["evc_value"])
                   /\ mp_pc' = "returned"
    /\ UNCHANGED <<mp_segment_id, mp_evc_result, mp_segment_info, company_estimate,
                   prio_vars, evc_vars, wf_vars, fd_vars, rp_vars>>

\* ---- integrate_evc_and_market_potential (priority_evaluation.py) ---------
\* {r.get("segment_id"): r for r in results if r.get("segment_id")}: the
\* last result of each segment id
by_segment(processed_results) ==
    LET ids == {Get(processed_results[i], "segment_id", "None") :
                   i \in DOMAIN processed_results} \ {"None"}
    IN  [id \in ids |->
            processed_results[CHOOSE i \in DOMAIN processed_results :
                /\ Get(processed_results[i], "segment_id", "None") = id
                /\ \A j \in DOMAIN processed_results :
                      Get(processed_results[j], "segment_id", "None") = id => j <= i]]

\* the integrated_result dictionary built for one segment id
integrated_result(segment_id, evc_by_segment, potential_by_segment) ==
    LET evc_entry        == Get(evc_by_segment, segment_id, EmptyDict)
        market_potential == Get(potential_by_segment, segment_id, EmptyDict)
    IN  [segment_id |-> segment_id,
         segment_name |->
            Get(evc_entry, "segment_name",
                Get(market_potential, "segment_name", "segment")),
         evc_value |-> Get(evc_entry, "evc_value", RInt(0)),
         market_size |-> Get(market_potential, "market_size", RInt(0)),
         acquisition_probability |->
            Get(market_potential, "acquisition_probability", RInt(0)),
         total_potential_value |->
            Get(market_potential, "total_potential_value", RInt(0)),
         evc_components |-> Get(evc_entry, "components", EmptyDict),
         market_analysis |-> Get(market_potential, "analysis_details", EmptyDict)]

\* the orders in which "for segment_id in all_segment_ids" may visit a set
Orders(ids) ==
    {order \in [1..Cardinality(ids) -> ids] :
        \A i, j \in DOMAIN order : order[i] = order[j] => i = j}

\* the lists integrate_evc_and_market_potential may return under the key
\* integrated_results: one entry per segment id of either argument, in the
\* iteration order of a set
integrate_evc_and_market_potential(evc_results, market_potentials) ==
    LET evc_by_segment       == by_segment(evc_results)
        potential_by_segment == by_segment(market_potentials)
        all_segment_ids == DOMAIN evc_by_segment \cup DOMAIN potential_by_segment
    IN  {[i \in DOMAIN order |->
            integrated_result(order[i], evc_by_segment, potential_by_segment)] :
         order \in Orders(all_segment_ids)}

\* the EVC result handed to calculate_segment_potential and the potential
\* it returned are integrated; the outcome is the batch of the scorer.
\* str(result) of the potential is read back by json.loads after the
\* replacement of ' by ", which restores the dictionary of numbers.
IntegrateEvcAndMarketPotential ==
    /\ mp_pc = "returned"
    /\ "potential_value" \in DOMAIN mp_result
    /\ prio_pc = "idle"
    /\ integrated_results' \in
          integrate_evc_and_market_potential(<<mp_evc_result.dict>>, <<mp_result>>)
    /\ prio_pc' = "input"
    /\ UNCHANGED <<priority_scores, batch_form, mp_vars, evc_vars, wf_vars, fd_vars,
                   rp_vars>>

MpNext ==
    \/ ParseAndCheck
    \/ EstimateCompanies
    \/ EstimateAcquisitionRate
    \/ IntegrateEvcAndMarketPotential
    \/ CalculatePriorityScores

\* ------------------------------------------------------------------------
\* Report assembler: create_priority_report
\* (nexasales_agents/priority_evaluation_part2.py)
\* An argument is a record [form, items, overall]: form says how the data
\* arrives, items is the list of entries it carries, overall the
\* overall_action_plan of an action-plan dictionary.
\* ------------------------------------------------------------------------
MaxScores == 2

ReportSegments == {"s1", "s2", "s3"}

Argument(form, items) == [form |-> form, items |-> items, overall |-> EmptyDict]

\* the forms of priority_scores: a list object, or a string holding
\* {"priority_scores": [...]}
ScoreForms == {"list", "string"}

\* the forms of segment_strategies: a list, a string holding
\* {"segment_strategies": [...]}, a string that is not JSON, and a dictionary
\* without the key segment_strategies
StrategyForms == {"list", "wrapped_string", "unparseable", "other_dict"}

\* the forms of action_plans: a list, a string holding {"action_plans":
\* [...]}, a string that is not JSON, and the dictionary create_action_plan
\* returns ({"segment_action_plans", "segment_recommendations",
\* "overall_action_plan"}, no key action_plans)
PlanForms == {"list", "wrapped_string", "unparseable", "action_plan_output"}

\* the forms whose processed value is the list of entries
ListForms == {"list", "string", "wrapped_string"}

\* the forms whose processed value is a non-empty dictionary
DictForms == {"other_dict", "action_plan_output"}

\* the entries of scores / strategies / plans when the processed value is
\* a list; [] when parsing failed; a dictionary carries no entries
processed(arg) == IF arg.form \in ListForms THEN arg.items ELSE <<>>

\* the last strategy of the list that names the segment, 0 if none
RECURSIVE last_strategy_for(_, _)
last_strategy_for(strategies, segment_id) ==
    IF strategies = <<>> THEN 0
    ELSE IF Get(strategies[Len(strategies)], "segment_id", "None") = segment_id
         THEN Len(strategies)
         ELSE last_strategy_for(SubSeq(strategies, 1, Len(strategies) - 1), segment_id)

\* a strategy loop that extends the key_tactics the score already carries
\* instead of overwriting them
with_strategy_accumulating(score, strategies) ==
    LET k == last_strategy_for(strategies, Get(score, "segment_id", "None"))
    IN  IF k = 0 THEN score
        ELSE Put(Put(Put(score, "strategy", Get(strategies[k], "approach", "")),
                     "resource_allocation",
                     Get(strategies[k], "resource_allocation", "")),
                 "key_tactics", Get(score, "key_tactics", <<>>)
                                \o Get(strategies[k], "key_tactics", <<>>))

\* a score after the loop "for strategy in strategies: for score in scores"
with_strategy(score, strategies) ==
    LET k == last_strategy_for(strategies, Get(score, "segment_id", "None"))
    IN  IF k = 0 THEN score
        ELSE Put(Put(Put(score, "strategy", Get(strategies[k], "approach", "")),
                     "resource_allocation",
                     Get(strategies[k], "resource_allocation", "")),
                 "key_tactics", Get(strategies[k], "key_tactics", <<>>))

\* the scores list after the strategy loop
scores_with_strategies(scores, strategies) ==
    [i \in 1..Len(scores) |-> with_strategy(scores[i], strategies)]

\* the first plan of the list that names the segment, 0 if none
RECURSIVE first_plan_for(_, _, _)
first_plan_for(plans, segment_id, k) ==
    IF k > Len(plans) THEN 0
    ELSE IF Get(plans[k], "segment_id", "None") = segment_id THEN k
    ELSE first_plan_for(plans, segment_id, k + 1)

\* next((p for p in plans if p.get("segment_id") == score.get("segment_id")), {})
action_plan_of(plans, score) ==
    LET k == first_plan_for(plans, Get(score, "segment_id", "None"), 1)
    IN  IF k = 0 THEN EmptyDict ELSE plans[k]

\* one entry of report["segment_evaluations"]
segment_evaluation(score, plans) ==
    [segment_id |-> Get(score, "segment_id", "None"),
     segment_name |-> Get(score, "segment_name", "None"),
     priority_score |-> Get(score, "priority_score", NoneNumber),
     priority_rank |-> Get(score, "priority_rank", "None"),
     score_components |-> Get(score, "score_components", EmptyDict),
     strategy |-> Get(score, "strategy", ""),
     resource_allocation |-> Get(score, "resource_allocation", ""),
     key_tactics |-> Get(score, "key_tactics", <<>>),
     action_plan |-> action_plan_of(plans, score)]

\* p.get(...) on a key of the plans dictionary: AttributeError, as soon as
\* there is a score to look a plan up for
create_priority_report_raises(scores_arg, plans_arg) ==
    plans_arg.form \in DictForms /\ processed(scores_arg) # <<>>

Ranks == {"saiyusen", "kouyusen", "chuyusen", "teiyusen", "saiteiyusen"}

\* the report dictionary
create_priority_report(segments, scores_arg, strategies_arg, plans_arg) ==
    LET strategies == processed(strategies_arg)
        plans      == processed(plans_arg)
        scores     == scores_with_strategies(processed(scores_arg), strategies)
        overall_action_plan ==
            IF plans_arg.form \in DictForms THEN plans_arg.overall ELSE EmptyDict
    IN  [title |-> "priority_report",
         summary |->
            [total_segments |-> Len(segments),
             priority_distribution |->
                [r \in Ranks |->
                    Cardinality({i \in 1..Len(scores) :
                                    Get(scores[i], "priority_rank", "None") = r})],
             top_priority_segments |->
                [i \in 1..(IF Len(scores) >= 2 THEN 2 ELSE Len(scores)) |->
                    [segment_id |-> Get(scores[i], "segment_id", "None"),
                     segment_name |-> Get(scores[i], "segment_name", "None"),
                     priority_score |-> Get(scores[i], "priority_score", NoneNumber),
                     priority_rank |-> Get(scores[i], "priority_rank", "None")]]],
         segment_evaluations |->
            [i \in 1..Len(scores) |-> segment_evaluation(scores[i], plans)],
         overall_strategy |->
            [resource_allocation |->
                Get(overall_action_plan, "resource_allocation_guidelines", EmptyDict),
             immediate_focus_areas |->
                Get(overall_action_plan, "immediate_focus_areas", <<>>),
             quarterly_review_points |->
                Get(overall_action_plan, "quarterly_review_points", <<>>)],
         key_insights |-> "fixed_text",
         recommendations |-> "fixed_text"]

\* ---- the inputs of create_priority_report --------------------------------
\* the score record of a segment as calculate_priority_scores emits it
ScoreRecord(id) ==
    [segment_id |-> id, segment_name |-> id,
     priority_score |-> CASE id = "s1" -> Rat(9, 10) [] id = "s2" -> Rat(1, 2)
                          [] OTHER -> Rat(1, 10),
     priority_rank |-> CASE id = "s1" -> "saiyusen" [] id = "s2" -> "chuyusen"
                         [] OTHER -> "saiteiyusen"]

StrategyRecord(id) ==
    [segment_id |-> id, approach |-> "approach", resource_allocation |-> "50%",
     key_tactics |-> <<"tactic">>]

PlanRecord(id) == [segment_id |-> id, steps |-> <<"step">>]

\* the segment ids of the entries of a list
IdsOf(items) == {items[i].segment_id : i \in DOMAIN items}

RpInit ==
    /\ report_segments \in {<<>>, <<[segment_id |-> "s1"], [segment_id |-> "s2"]>>}
    /\ \E f \in ScoreForms : report_scores = Argument(f, <<>>)
    /\ \E f \in StrategyForms : report_strategies = Argument(f, <<>>)
    /\ \E f \in PlanForms :
          report_plans =
             IF f = "action_plan_output"
             THEN [form |-> f, items |-> <<>>,
                   overall |-> [immediate_focus_areas |-> <<"focus">>]]
             ELSE Argument(f, <<>>)
    /\ report = NoResult
    /\ earlier_report = NoResult
    /\ rp_pc = "input"

\* the caller's scores hold one more segment
AddScore ==
    /\ rp_pc = "input"
    /\ Len(report_scores.items) < MaxScores
    /\ \E id \in ReportSegments \ IdsOf(report_scores.items) :
          report_scores' =
             [report_scores EXCEPT !.items = Append(@, ScoreRecord(id))]
    /\ UNCHANGED <<report_segments, report_strategies, report_plans, report,
                   earlier_report, rp_pc,
                   prio_vars, evc_vars, wf_vars, fd_vars, mp_vars>>

\* the caller's strategies hold an entry for one more segment
AddStrategy ==
    /\ rp_pc = "input"
    /\ report_strategies.form \in ListForms
    /\ Len(report_strategies.items) < MaxScores
    /\ \E id \in ReportSegments \ IdsOf(report_strategies.items) :
          report_strategies' =
             [report_strategies EXCEPT !.items = Append(@, StrategyRecord(id))]
    /\ UNCHANGED <<report_segments, report_scores, report_plans, report,
                   earlier_report, rp_pc,
                   prio_vars, evc_vars, wf_vars, fd_vars, mp_vars>>

\* the caller's action plans hold an entry for one more segment
AddPlan ==
    /\ rp_pc = "input"
    /\ report_plans.form \in ListForms
    /\ Len(report_plans.items) < MaxScores
    /\ \E id \in ReportSegments \ IdsOf(report_plans.items) :
          report_plans' =
             [report_plans EXCEPT !.items = Append(@, PlanRecord(id))]
    /\ UNCHANGED <<report_segments, report_scores, report_strategies, report,
                   earlier_report, rp_pc,
                   prio_vars, evc_vars, wf_vars, fd_vars, mp_vars>>

\* the call create_priority_report(integrated_results, priority_scores,
\* segment_strategies, action_plans); score records passed as objects are
\* written to by the strategy loop, those parsed from a string are copies.
\* The caller may make the call once more with the same four arguments.
CreatePriorityReport ==
    /\ \/ rp_pc = "input"
       \/ rp_pc = "done" /\ "no_result" \in DOMAIN earlier_report
    /\ earlier_report' = report
    /\ report_scores' =
          IF report_scores.form = "list"
          THEN [report_scores EXCEPT
                   !.items = scores_with_strategies(@, processed(report_strategies))]
          ELSE report_scores
    /\ IF create_priority_report_raises(report_scores, report_plans)
       THEN report' = Raised /\ rp_pc' = "raised"
       ELSE /\ report' = create_priority_report(report_segments, report_scores,
                                                report_strategies, report_plans)
            /\ rp_pc' = "done"
    /\ UNCHANGED <<report_segments, report_strategies, report_plans,
                   prio_vars, evc_vars, wf_vars, fd_vars, mp_vars>>

RpNext == AddScore \/ AddStrategy \/ AddPlan \/ CreatePriorityReport

\* ------------------------------------------------------------------------
\* Specifications: one per component; the other components stay idle
\* ------------------------------------------------------------------------
PrioIdle ==
    /\ integrated_results = <<>>
    /\ priority_scores = <<>>
    /\ prio_pc = "idle"
    /\ batch_form = "not_passed"

EvcIdle ==
    /\ evc_segment_id = "s1"
    /\ params_dict = EmptyDict
    /\ evc_result = NoResult
    /\ evc_pc = "idle"
    /\ evc_formula = EmptyDict

WfIdle ==
    /\ results = <<>>
    /\ wf_pc = "idle"
    /\ stage = 1
    /\ invoked = <<>>
    /\ now = 0
    /\ trace_id = "none"
    /\ history = <<>>
    /\ artifact = None

FdIdle ==
    /\ fd_segment_id = <<>>
    /\ base_formula = EmptyDict
    /\ segment_characteristics = JsonInput(EmptyDict)
    /\ customized_formula = NoResult
    /\ fd_pc = "idle"
    /\ validation_result = NoResult

MpIdle ==
    /\ mp_segment_id = "s1"
    /\ mp_evc_result = Unparseable
    /\ mp_segment_info = Unparseable
    /\ company_estimate = NoResult
    /\ estimator_calls = <<>>
    /\ mp_result = NoResult
    /\ mp_pc = "idle"

RpIdle ==
    /\ report_segments = <<>>
    /\ report_scores = Argument("list", <<>>)
    /\ report_strategies = Argument("list", <<>>)
    /\ report_plans = Argument("list", <<>>)
    /\ report = NoResult
    /\ earlier_report = NoResult
    /\ rp_pc = "idle"

InitPriority == PrioInit /\ EvcIdle /\ WfIdle /\ FdIdle /\ MpIdle /\ RpIdle
SpecPriority == InitPriority /\ [][PrioNext]_vars

InitEvc == EvcInit /\ PrioIdle /\ WfIdle /\ FdIdle /\ MpIdle /\ RpIdle
SpecEvc == InitEvc /\ [][EvcNext]_vars

InitWorkflow == WfInit /\ PrioIdle /\ EvcIdle /\ FdIdle /\ MpIdle /\ RpIdle
SpecWorkflow == InitWorkflow /\ [][WfNext]_vars

InitFormula == FdInit /\ PrioIdle /\ EvcIdle /\ WfIdle /\ MpIdle /\ RpIdle
SpecFormula == InitFormula /\ [][FdNext]_vars

InitPotential == MpInit /\ PrioIdle /\ EvcIdle /\ WfIdle /\ FdIdle /\ RpIdle
SpecPotential == InitPotential /\ [][MpNext]_vars

InitReport == RpInit /\ PrioIdle /\ EvcIdle /\ WfIdle /\ FdIdle /\ MpIdle
SpecReport == InitReport /\ [][RpNext]_vars

\* ========================================================================
\* Claims about the priority scorer (checked under SpecPriority)
\* ========================================================================
Scored == prio_pc = "done"

\* the returned entry of the segment at position i of the batch
ScoreOf(i) ==
    CHOOSE e \in Range(priority_scores) :
        e.segment_id = integrated_results[i].segment_id

\* position in the input batch of the segment of a returned entry
InputPosition(e) ==
    CHOOSE i \in DOMAIN integrated_results :
        integrated_results[i].segment_id = e.segment_id

\* the batch maximum of a numeric field
BatchMax(field) ==
    CHOOSE v \in {integrated_results[i][field] : i \in DOMAIN integrated_results} :
        \A i \in DOMAIN integrated_results : RLe(integrated_results[i][field], v)

BatchMaxGrowth ==
    CHOOSE v \in {integrated_results[i].market_analysis.market_growth_rate :
                    i \in DOMAIN integrated_results} :
        \A i \in DOMAIN integrated_results :
            RLe(integrated_results[i].market_analysis.market_growth_rate, v)

\* min(growth_rate / 0.10, 1) as the specification words it
CappedGrowth(r) ==
    LET q == RDiv(r.market_analysis.market_growth_rate, Rat(10, 100))
    IN  IF RLt(q, RInt(1)) THEN q ELSE RInt(1)

\* value / batch maximum, taken literally
PlainRatio(v, m) == RDiv(v, m)

\* value / batch maximum when the maximum is positive, otherwise 0
GuardedRatio(v, m) == IF RGt(m, RInt(0)) THEN RDiv(v, m) ELSE RInt(0)

WeightedSum(ne, nm, na, ng) ==
    RAdd(RAdd(RAdd(RMul(Rat(4, 10), ne), RMul(Rat(2, 10), nm)),
              RMul(Rat(3, 10), na)), RMul(Rat(1, 10), ng))

ContributionsAddUp(e) ==
    LET c == e.score_components
    IN  /\ e.priority_score =
              RAdd(RAdd(RAdd(c.evc_value.contribution, c.market_size.contribution),
                        c.acquisition_probability.contribution),
                   c.growth_potential.contribution)
        /\ \A k \in DOMAIN c :
              c[k].contribution = RMul(c[k].weight, c[k].normalized_value)
        /\ RAdd(RAdd(RAdd(c.evc_value.weight, c.market_size.weight),
                     c.acquisition_probability.weight),
                c.growth_potential.weight) = RInt(1)

\* C6, as claimed: every segment of a batch gets priority_score =
\* 0.4*(evc_value/max_evc) + 0.2*(market_size/max_market_size)
\* + 0.3*acquisition_probability + 0.1*min(growth_rate/0.10, 1) with the
\* maxima taken over the batch (read on the batches whose maxima are not 0,
\* where the quotients exist), the weights sum to 1 and the score is the sum
\* of the four contributions.
C6_ScoreIsPlainWeightedSum ==
    (Scored /\ integrated_results # <<>>
        /\ BatchMax("evc_value") # RInt(0) /\ BatchMax("market_size") # RInt(0)) =>
        \A i \in DOMAIN integrated_results :
            LET r == integrated_results[i]
            IN  /\ ScoreOf(i).priority_score =
                     WeightedSum(PlainRatio(r.evc_value, BatchMax("evc_value")),
                                 PlainRatio(r.market_size, BatchMax("market_size")),
                                 r.acquisition_probability, CappedGrowth(r))
                /\ ContributionsAddUp(ScoreOf(i))

\* C6, amended: the same weighted sum, where evc_value/max_evc and
\* market_size/max_market_size are taken only when the batch maximum is
\* positive and are 0 when it is zero or negative; the weights sum to 1 and
\* the score is the sum of the four contributions weight * normalized_value.
C6_ScoreIsGuardedWeightedSum ==
    (Scored /\ integrated_results # <<>>) =>
        \A i \in DOMAIN integrated_results :
            LET r == integrated_results[i]
            IN  /\ ScoreOf(i).priority_score =
                     WeightedSum(GuardedRatio(r.evc_value, BatchMax("evc_value")),
                                 GuardedRatio(r.market_size, BatchMax("market_size")),
                                 r.acquisition_probability, CappedGrowth(r))
                /\ ContributionsAddUp(ScoreOf(i))

\* C6 witness: a scored batch of two segments in which the evc ratio is a
\* proper fraction, the growth ratio is capped, and another batch maximum
\* is not positive.
C6_Witness ==
    /\ Scored /\ Len(integrated_results) = 2
    /\ RLe(BatchMax("market_size"), RInt(0))
    /\ \E i \in DOMAIN integrated_results :
          /\ ScoreOf(i).score_components.evc_value.normalized_value = Rat(-1, 2)
          /\ RGt(integrated_results[i].market_analysis.market_growth_rate, Rat(1, 10))
          /\ ScoreOf(i).score_components.growth_potential.normalized_value = RInt(1)

\* C7, as claimed: for every batch (evc_value of any sign, market_size >= 0,
\* acquisition_probability in [0,1], any growth_rate) every returned
\* priority_score lies in [0, 1].
C7_ScoreWithinUnitInterval ==
    Scored =>
        \A j \in DOMAIN priority_scores :
            /\ RLe(RInt(0), priority_scores[j].priority_score)
            /\ RLe(priority_scores[j].priority_score, RInt(1))

\* the segment at position i holds the batch maximum of all four inputs
HoldsEveryMaximum(i) ==
    LET r == integrated_results[i]
    IN  /\ r.evc_value = BatchMax("evc_value")
        /\ r.market_size = BatchMax("market_size")
        /\ r.acquisition_probability = BatchMax("acquisition_probability")
        /\ r.market_analysis.market_growth_rate = BatchMaxGrowth

\* C8, as claimed: a segment that holds the batch maximum of evc_value,
\* market_size, acquisition_probability and growth_rate at once scores 1.
C8_MaxSegmentScoresOne ==
    Scored =>
        \A i \in DOMAIN integrated_results :
            HoldsEveryMaximum(i) => ScoreOf(i).priority_score = RInt(1)

\* C8, amended: a segment that holds the batch maximum of evc_value and of
\* market_size, both maxima positive, and whose acquisition_probability is 1
\* and whose growth_rate is at least 0.10 scores 0.4+0.2+0.3+0.1 = 1.
C8_SaturatedMaxSegmentScoresOne ==
    Scored =>
        \A i \in DOMAIN integrated_results :
            LET r == integrated_results[i]
            IN  (/\ r.evc_value = BatchMax("evc_value")
                 /\ RGt(r.evc_value, RInt(0))
                 /\ r.market_size = BatchMax("market_size")
                 /\ RGt(r.market_size, RInt(0))
                 /\ r.acquisition_probability = RInt(1)
                 /\ RGe(r.market_analysis.market_growth_rate, Rat(10, 100)))
                => ScoreOf(i).priority_score = RInt(1)

\* C8 witness: a scored batch of two in which one segment holds both positive
\* maxima with acquisition_probability 1 and growth_rate >= 0.10, next to a
\* segment with smaller values.
C8_Witness ==
    /\ Scored /\ Len(integrated_results) = 2
    /\ \E i, k \in DOMAIN integrated_results :
          LET r == integrated_results[i]
          IN  /\ i # k
              /\ r.evc_value = BatchMax("evc_value") /\ RGt(r.evc_value, RInt(0))
              /\ r.market_size = BatchMax("market_size") /\ RGt(r.market_size, RInt(0))
              /\ r.acquisition_probability = RInt(1)
              /\ RGe(r.market_analysis.market_growth_rate, Rat(10, 100))
              /\ RLt(ScoreOf(k).priority_score, RInt(1))
              /\ ScoreOf(i).priority_score = RInt(1)

\* the rank the claim assigns to a score
ClaimedRank(score) ==
    IF RLe(Rat(8, 10), score) THEN "saiyusen"
    ELSE IF RLe(Rat(6, 10), score) THEN "kouyusen"
    ELSE IF RLe(Rat(4, 10), score) THEN "chuyusen"
    ELSE IF RLe(Rat(2, 10), score) THEN "teiyusen"
    ELSE "saiteiyusen"

\* C9: priority_rank depends on priority_score alone, with thresholds closed
\* on the lower bound and tested in descending order: >= 0.8 top (saiyusen),
\* >= 0.6 high (kouyusen), >= 0.4 medium (chuyusen), >= 0.2 low (teiyusen),
\* else lowest (saiteiyusen); exactly 0.8 is top, anything below is not.
C9_RankFollowsThresholds ==
    Scored =>
        \A j \in DOMAIN priority_scores :
            LET e == priority_scores[j]
            IN  /\ e.priority_rank = ClaimedRank(e.priority_score)
                /\ (e.priority_score = Rat(8, 10) => e.priority_rank = "saiyusen")
                /\ (RLt(e.priority_score, Rat(8, 10)) => e.priority_rank # "saiyusen")

\* C9 witness: a scored batch holding a score of exactly 0.8 ranked top and a
\* score in [0.6, 0.8) ranked high.
C9_Witness ==
    /\ Scored
    /\ \E j, k \in DOMAIN priority_scores :
          /\ priority_scores[j].priority_score = Rat(8, 10)
          /\ priority_scores[j].priority_rank = "saiyusen"
          /\ RLt(priority_scores[k].priority_score, Rat(8, 10))
          /\ RGe(priority_scores[k].priority_score, Rat(6, 10))
          /\ priority_scores[k].priority_rank = "kouyusen"

\* C10: the returned list is a permutation of the per-segment scores, ordered
\* by non-increasing priority_score, and entries of equal score keep the
\* relative order their segments had in the input batch.
C10_StableDescendingPermutation ==
    Scored =>
        /\ Len(priority_scores) = Len(integrated_results)
        /\ \A i \in DOMAIN integrated_results :
              /\ Cardinality({j \in DOMAIN priority_scores :
                    priority_scores[j].segment_id = integrated_results[i].segment_id}) = 1
              /\ ScoreOf(i) = priority_score_info(integrated_results[i], integrated_results)
        /\ \A j, k \in DOMAIN priority_scores :
              j < k =>
                 /\ RGe(priority_scores[j].priority_score, priority_scores[k].priority_score)
                 /\ (priority_scores[j].priority_score = priority_scores[k].priority_score
                       => InputPosition(priority_scores[j]) < InputPosition(priority_scores[k]))

\* C10 witness: a scored batch of two distinct segments with equal scores
\* whose other inputs differ.
C10_Witness ==
    /\ Scored /\ Len(priority_scores) = 2
    /\ priority_scores[1].priority_score = priority_scores[2].priority_score
    /\ priority_scores[1].segment_id # priority_scores[2].segment_id
    /\ priority_scores[1].score_components # priority_scores[2].score_components


\* C27: calculate_priority_scores returns exactly one score for each segment
\* of the batch in whichever form the batch arrives (a list of records, a
\* dictionary wrapping the list under integrated_results, a JSON string of
\* either), and an empty list, not an exception, for an unparseable string.
ScorerCalled == batch_form # "not_passed" /\ prio_pc \in {"done", "raised"}

C27_OneScorePerSegmentInEveryForm ==
    ScorerCalled =>
        /\ prio_pc = "done"
        /\ Len(priority_scores) = Len(integrated_results)
        /\ \A i \in DOMAIN integrated_results :
              Cardinality({k \in DOMAIN priority_scores :
                  priority_scores[k].segment_id = integrated_results[i].segment_id}) = 1

\* ========================================================================
\* Claim about the EVC calculator (checked under SpecEvc)
\* ========================================================================
Returned == evc_pc = "done" /\ "evc_value" \in DOMAIN evc_result

\* C1: whenever calculate_evc returns a result, its evc_value equals
\* reference_price + (revenue_enhancement.value + cost_optimization.value)
\* - implementation_cost, with the component values of the same result.
C1_EvcIdentity ==
    Returned =>
        LET c == evc_result.components
        IN  evc_result.evc_value =
               RSub(RAdd(c.reference_price,
                         RAdd(c.revenue_enhancement.value, c.cost_optimization.value)),
                    c.implementation_cost)

\* C1 witness: a returned result for an adjusted segment in which the
\* reference price, both value components and the implementation cost are
\* all non-zero.
C1_Witness ==
    /\ Returned
    /\ evc_segment_id = "s3"
    /\ evc_result.components.reference_price # RInt(0)
    /\ evc_result.components.revenue_enhancement.value # RInt(0)
    /\ evc_result.components.cost_optimization.value # RInt(0)
    /\ evc_result.components.implementation_cost # RInt(0)

\* ========================================================================
\* Claims about run_workflow (checked under SpecWorkflow)
\* ========================================================================
RunReturned == wf_pc \in {"returned", "written"}

\* a stage result bears a non-empty error field
BearsError(r) == "error" \in DOMAIN r /\ r["error"] # ""

\* the stage keys in the order the specification lists the stages
ClaimedOrder ==
    <<"service_analysis", "customer_segments", "reference_products",
      "value_comparisons", "formula_designs", "evc_calculations",
      "market_potentials", "priority_evaluations">>

\* C2: for each stage, if its result carries a non-empty error field, the
\* returned run result has status "failed", its error equals that stage's
\* error message, and completed_at is set.
C2_StageErrorFailsRun ==
    RunReturned =>
        \A k \in DOMAIN history :
            BearsError(history[k]) =>
                /\ results["status"] = "failed"
                /\ "error" \in DOMAIN results
                /\ results["error"] = history[k]["error"]
                /\ "completed_at" \in DOMAIN results

\* C2 witness: a run returned after its eighth stage produced an error.
C2_Witness ==
    /\ RunReturned
    /\ Len(history) = NumStages
    /\ BearsError(history[NumStages])
    /\ results["error"] = history[NumStages]["error"]

\* C3: the stages are invoked in the fixed order, each at most once; a stage
\* is invoked only after every earlier stage returned without an error, so
\* a failing stage is the last one ever invoked.
C3_StagesInOrderOnceNoneAfterFailure ==
    /\ Len(invoked) <= Len(ClaimedOrder)
    /\ Len(history) = Len(invoked)
    /\ \A i \in DOMAIN invoked :
          /\ invoked[i] = i
          /\ StageKeys[invoked[i]] = ClaimedOrder[i]
          /\ (i < Len(invoked) => ~BearsError(history[i]))

\* C3 witness: a finished run whose third stage failed after two stages
\* that returned without an error.
C3_Witness ==
    /\ wf_pc = "written"
    /\ invoked = <<1, 2, 3>>
    /\ BearsError(history[3])

\* the properties the claim asks of a returned result
TerminalResult(res) ==
    /\ "status" \in DOMAIN res
    /\ res["status"] \in {"success", "failed"}
    /\ (res["status"] = "failed" =>
           "error" \in DOMAIN res /\ res["error"] \in Messages \cup {"OPENAI_API_KEY not set"})
    /\ (res["status"] = "success" =>
           /\ Len(history) = NumStages
           /\ \A k \in DOMAIN history : ~BearsError(history[k]))

\* C4: every result run_workflow returns, and so every artifact main writes,
\* has status "success" or "failed", never "running"; a failed one has an
\* error string; status is "success" only if all eight stages returned
\* without an error.
C4_TerminalStatus ==
    /\ (RunReturned => TerminalResult(results))
    /\ (wf_pc = "written" => artifact = results /\ TerminalResult(artifact))

\* C4 witness: an artifact written with status "success" after eight stages.
C4_Witness ==
    /\ wf_pc = "written"
    /\ artifact["status"] = "success"
    /\ Len(history) = NumStages

\* C5: when stage k fails, the returned result holds, unchanged, the outputs
\* of stages 1..k-1 under their stage keys and no entry of a stage after k.
C5_PartialOutputsRetained ==
    RunReturned =>
        \A k \in DOMAIN history :
            BearsError(history[k]) =>
                /\ \A j \in 1..(k - 1) :
                      /\ ClaimedOrder[j] \in DOMAIN results
                      /\ results[ClaimedOrder[j]] = history[j]
                /\ \A j \in (k + 1)..NumStages : ClaimedOrder[j] \notin DOMAIN results

\* C5 witness: a run returned after its third stage failed, with different
\* outputs recorded for the first two stages.
C5_Witness ==
    /\ RunReturned
    /\ Len(history) = 3
    /\ BearsError(history[3])
    /\ results["service_analysis"] = [result |-> "out_a"]
    /\ results["customer_segments"] = [result |-> "out_b"]


\* ------------------------------------------------------------------------
\* C11
\* ------------------------------------------------------------------------
\* every record of the batch has the value zero in the field
AllZero(field) ==
    \A i \in 1..Len(integrated_results) : integrated_results[i][field] = RInt(0)

\* the entry's normalized value is the raw value over a denominator of 1,
\* which for a raw value of zero is the neutral 0
NeutralOverOne(e, field) ==
    /\ e.score_components[field].normalized_value =
           RDiv(e.score_components[field].raw_value, RInt(1))
    /\ e.score_components[field].normalized_value = RInt(0)

\* C11: calculate_priority_scores never divides by zero and never raises on
\* a batch given as a list of segment records:
\* once it was called it has returned, with one entry per record of the
\* batch (none for the empty batch); when every evc_value (every
\* market_size) of the batch is zero the normalized value of that field is
\* the value over a denominator of 1, that is the neutral 0.
C11_NoDivisionByZero ==
    /\ batch_form = "list" => prio_pc # "raised"
    /\ prio_pc = "done" =>
          /\ Len(priority_scores) = Len(integrated_results)
          /\ AllZero("evc_value") =>
                \A k \in 1..Len(priority_scores) :
                    NeutralOverOne(priority_scores[k], "evc_value")
          /\ AllZero("market_size") =>
                \A k \in 1..Len(priority_scores) :
                    NeutralOverOne(priority_scores[k], "market_size")

\* a batch of two records, every evc_value and every market_size zero, scored
C11_Witness ==
    /\ prio_pc = "done"
    /\ Len(integrated_results) = 2
    /\ AllZero("evc_value")
    /\ AllZero("market_size")
    /\ Len(priority_scores) = 2

\* ========================================================================
\* Claims about the formula customizer (checked under SpecFormula)
\* ========================================================================
\* the customizer has returned a formula
Customized == fd_pc = "done"

\* the base weight of a component: the one of the base formula when it
\* gives one, else the default 1.0 / 1.2 / 1.0 / 0.9
BaseWeight(name) ==
    IF /\ "components" \in DOMAIN base_formula
       /\ name \in DOMAIN base_formula.components
       /\ "weight" \in DOMAIN base_formula.components[name]
    THEN base_formula.components[name].weight
    ELSE CASE name = "R" -> RInt(1) [] name = "Re" -> Rat(12, 10)
           [] name = "Co" -> RInt(1) [] name = "I" -> Rat(9, 10)

\* the factor the policy gives a component for the two booleans
ClaimedFactor(name, enterprise, high_value) ==
    CASE name = "Re" -> IF high_value THEN Rat(2, 10) ELSE Rat(-2, 10)
      [] name = "Co" -> IF ~high_value THEN Rat(2, 10) ELSE Rat(-1, 10)
      [] name = "I"  -> IF ~enterprise THEN Rat(2, 10) ELSE Rat(-2, 10)
      [] name = "R"  -> RInt(0)

\* the two booleans of the four catalogued segments
CatalogueEnterprise(id) == id \in {<<"s", "1">>, <<"s", "2">>}
CatalogueHighValue(id)  == id \in {<<"s", "1">>, <<"s", "3">>}
Catalogue == {<<"s", "1">>, <<"s", "2">>, <<"s", "3">>, <<"s", "4">>}

\* C12: every emitted weight is the base weight times (1 + factor), the
\* factor being +0.2/-0.2 for Re by high value, +0.2/-0.1 for Co by not high
\* value, +0.2/-0.2 for I by not enterprise and 0 for R; for s1 and s3 the Re
\* factor is +0.2, for s2 and s4 it is -0.2, and the Re and Co factors do not
\* depend on enterprise-ness.
C12_WeightFactors ==
    Customized =>
        /\ \A name \in {"R", "Re", "Co", "I"} :
              customized_formula.components[name].weight =
                 RMul(BaseWeight(name),
                      RAdd(RInt(1), ClaimedFactor(name,
                                       is_enterprise_of(fd_segment_id),
                                       is_high_value_of(fd_segment_id))))
        /\ fd_segment_id \in Catalogue =>
              /\ customized_formula.components["Re"].weight =
                    RMul(BaseWeight("Re"),
                         IF CatalogueHighValue(fd_segment_id)
                         THEN Rat(12, 10) ELSE Rat(8, 10))
              /\ customized_formula.components["Co"].weight =
                    RMul(BaseWeight("Co"),
                         IF CatalogueHighValue(fd_segment_id)
                         THEN Rat(9, 10) ELSE Rat(12, 10))

\* s3 customized over a base formula that gives Re the weight 2
C12_Witness ==
    /\ Customized
    /\ fd_segment_id = <<"s", "3">>
    /\ BaseWeight("Re") = RInt(2)
    /\ customized_formula.components["Re"].weight = Rat(24, 10)
    /\ customized_formula.components["I"].weight = Rat(6, 10)

\* the id is "s" followed by one or more decimal digits
NumberedId(id) == Len(id) >= 2 /\ id[1] = "s" /\ \A i \in 2..Len(id) : id[i] \in Digits

\* the booleans the returned formula was built for, read off its
\* justification
BuiltForEnterprise == customized_formula.adjustment_justification[1] = "enterprise"
BuiltForHighValue  == customized_formula.adjustment_justification[2] = "high_value"

\* C13: for an id "s"+digits is_enterprise is (suffix <= 2) and
\* is_high_value is (suffix odd); for any other id the booleans are the
\* presence of the enterprise marker and of the high-value marker in the id,
\* false when the marker is absent.
C13_BooleansFromSegmentId ==
    fd_pc \in {"done", "raised"} =>
        /\ customized_formula # Raised
        /\ IF NumberedId(fd_segment_id)
           THEN /\ BuiltForEnterprise <=> int(Tail(fd_segment_id)) <= 2
                /\ BuiltForHighValue <=> int(Tail(fd_segment_id)) % 2 = 1
           ELSE /\ BuiltForEnterprise <=> Contains(fd_segment_id, EnterpriseMarker)
                /\ BuiltForHighValue <=> Contains(fd_segment_id, HighValueMarker)

\* the lookup table of default parameters by (is_enterprise, is_high_value)
TableValue(p, enterprise, high_value) ==
    LET pick(eh, el, sh, sl) ==
            IF enterprise THEN (IF high_value THEN eh ELSE el)
            ELSE (IF high_value THEN sh ELSE sl)
    IN  CASE p = "annual_revenue" ->
                pick(RInt(1000000000), RInt(800000000), RInt(200000000), RInt(50000000))
          [] p = "annual_cost" ->
                pick(RInt(500000000), RInt(400000000), RInt(100000000), RInt(25000000))
          [] p = "revenue_increase_rate" ->
                pick(Rat(5, 100), Rat(3, 100), Rat(8, 100), Rat(2, 100))
          [] p = "cost_reduction_rate" ->
                pick(Rat(15, 100), Rat(20, 100), Rat(12, 100), Rat(10, 100))
          [] p = "initial_cost" ->
                pick(RInt(500000), RInt(400000), RInt(200000), RInt(100000))
          [] p = "operation_cost" ->
                pick(RInt(10000), RInt(8000), RInt(5000), RInt(3000))
          [] p = "reference_price" -> RInt(15000)
          [] p = "implementation_years" -> RInt(3)

\* the parameters the characteristics input gives when it parses as a JSON
\* object; no parameter when it does not
GivenParameters ==
    IF segment_characteristics.form = "json"
    THEN segment_characteristics.dict ELSE EmptyDict

\* C14: each of the eight parameters is emitted with the value given in the
\* parsed characteristics when it is present there and with the table value
\* for (is_enterprise, is_high_value) otherwise; an input that cannot be
\* parsed yields the eight table values and the formula is still returned.
C14_ParametersFromCharacteristicsOrTable ==
    Customized =>
        /\ customized_formula # NoResult
        /\ DOMAIN customized_formula.segment_specific_parameters = ParameterNames
        /\ \A p \in ParameterNames :
              customized_formula.segment_specific_parameters[p] =
                 IF p \in DOMAIN GivenParameters
                 THEN GivenParameters[p]
                 ELSE TableValue(p, BuiltForEnterprise, BuiltForHighValue)

\* a JSON object that gives annual_revenue and nothing for operation_cost,
\* customized for s2
C14_Witness ==
    /\ Customized
    /\ fd_segment_id = <<"s", "2">>
    /\ "annual_revenue" \in DOMAIN GivenParameters
    /\ customized_formula.segment_specific_parameters["annual_revenue"] = RInt(7)
    /\ customized_formula.segment_specific_parameters["operation_cost"] = RInt(8000)

\* a malformed JSON input customized for s3: the eight table values
C14_WitnessUnparsed ==
    /\ Customized
    /\ segment_characteristics.form = "malformed_json"
    /\ fd_segment_id = <<"s", "3">>
    /\ customized_formula.segment_specific_parameters["initial_cost"] = RInt(200000)

\* C23: every segment_specific_parameters set the customizer emits, for any
\* segment id and any characteristics input, has implementation_years > 0,
\* revenue_increase_rate and cost_reduction_rate within [0, 1], and
\* reference_price, annual_revenue, annual_cost, initial_cost and
\* operation_cost not negative.
C23_EmittedParametersValid ==
    Customized =>
        LET p == customized_formula.segment_specific_parameters
        IN  /\ RGt(p["implementation_years"], RInt(0))
            /\ \A r \in {"revenue_increase_rate", "cost_reduction_rate"} :
                  RGe(p[r], RInt(0)) /\ RLe(p[r], RInt(1))
            /\ \A c \in {"reference_price", "annual_revenue", "annual_cost",
                          "initial_cost", "operation_cost"} :
                  RGe(p[c], RInt(0))

\* ========================================================================
\* Further claims about the EVC calculator (checked under SpecEvc)
\* ========================================================================
\* C15: implementation_cost =
\* (initial_cost + operation_cost * implementation_years) * weights.I, from
\* the parameters initial_cost, operation_cost and implementation_years of
\* the parameter set (absent costs counting 0), weights.I being the I factor
\* the calculation applies to the segment.
C15_ImplementationCostFromOperationCost ==
    Returned =>
        evc_result.components.implementation_cost =
            RMul(RAdd(Get(params_dict, "initial_cost", RInt(0)),
                      RMul(Get(params_dict, "operation_cost", RInt(0)),
                           params_dict["implementation_years"])),
                 adjustments_of(evc_segment_id, params_dict).I)

\* the configured sub-components of a kind whose calculation mode lacks one
\* of its required parameters in the parameter set
LackingParameters(names, kind) ==
    LET component_config == Get(params_dict, kind, <<>>)
    IN  {n \in Range(names) \cap DOMAIN component_config :
            LET mode == Get(component_config[n], "calculation_function", "None")
                req  == Required(n, mode)
            IN  /\ mode \in Modes(n)
                /\ \E i \in DOMAIN req : req[i] \notin DOMAIN params_dict}

\* the breakdown of a component of the returned result
Breakdown(component) == evc_result.components[component].calculation_details.components

\* C16: a revenue or cost sub-component whose mode lacks a required
\* parameter in the parameter set does not make the calculation fail, is not
\* in the component breakdown and so contributes 0; a component without any
\* computed sub-component has the value 0.  (Parameter sets that carry
\* implementation_years, so that nothing else can fail.)
C16_MissingParametersContributeNothing ==
    (evc_pc = "done" /\ "implementation_years" \in DOMAIN params_dict) =>
        /\ "raised" \notin DOMAIN evc_result
        /\ \A n \in LackingParameters(RevenueNames, "revenue_components") :
              n \notin DOMAIN Breakdown("revenue_enhancement")
        /\ \A n \in LackingParameters(CostNames, "cost_components") :
              n \notin DOMAIN Breakdown("cost_optimization")
        /\ DOMAIN Breakdown("revenue_enhancement") = {} =>
              evc_result.components.revenue_enhancement.value = RInt(0)
        /\ DOMAIN Breakdown("cost_optimization") = {} =>
              evc_result.components.cost_optimization.value = RInt(0)

\* C22: the revenue-enhancement sum, the cost-optimization sum and the
\* implementation cost of a returned result are scaled by the Re, Co and I
\* weights of the formula passed to calculate_evc, the one the customizer
\* produced for the segment (for s1 the Re adjustment +0.2 and the I
\* adjustment -0.2, for s4 the opposite ones).
C22_ScaledByFormulaWeights ==
    Returned =>
        LET w == [Re |-> evc_formula.components.Re.weight,
                  Co |-> evc_formula.components.Co.weight,
                  I  |-> evc_formula.components.I.weight]
            c == evc_result.components
        IN  /\ c.revenue_enhancement.value =
                  sum_values(components_of(RevenueNames,
                      Get(params_dict, "revenue_components", <<>>), params_dict, w.Re))
            /\ c.cost_optimization.value =
                  sum_values(components_of(CostNames,
                      Get(params_dict, "cost_components", <<>>), params_dict, w.Co))
            /\ c.implementation_cost = implementation_cost_value(params_dict, w)

\* ========================================================================
\* Claims about the market potential estimator (checked under SpecPotential)
\* ========================================================================
\* calculate_segment_potential returned a result with potentials
Succeeded == mp_pc = "returned" /\ "potential_value" \in DOMAIN mp_result

\* C17: in every successful result potential_value.X is
\* companies.X * acquisition_rate.X * evc_value for each X of min, expected,
\* max on its own, companies and acquisition_rate being the triples as the
\* estimators returned them and evc_value the one handed in.
C17_PotentialIsProductPerPoint ==
    Succeeded =>
        /\ mp_result.companies = company_estimate
        /\ mp_result.evc_value = mp_evc_result.dict["evc_value"]
        /\ \A X \in {"min", "expected", "max"} :
              mp_result.potential_value[X] =
                 RMul(mp_result.companies[X],
                      RMul(mp_result.acquisition_rate[X], mp_result.evc_value))

\* triples that are not in ascending order: the min potential 3 * 1/2 * 2
\* exceeds the max potential 2 * 1/2 * 2
C17_Witness ==
    /\ Succeeded
    /\ mp_result.companies = Triple(RInt(3), RInt(1), RInt(2))
    /\ mp_result.acquisition_rate = Triple(Rat(1, 2), Rat(1, 10), Rat(1, 2))
    /\ mp_result.potential_value["min"] = RInt(3)
    /\ mp_result.potential_value["expected"] = Rat(1, 5)
    /\ mp_result.potential_value["max"] = RInt(2)

\* the EVC result handed in is an object without evc_value or with the
\* value zero
EvcValueAbsentOrZero ==
    /\ mp_evc_result.form = "json"
    /\ \/ "evc_value" \notin DOMAIN mp_evc_result.dict
       \/ mp_evc_result.dict["evc_value"] = RInt(0)

\* C18: with an EVC result that has no evc_value or the value zero the call
\* returns a value whose keys are error and message, without a
\* potential_value, without invoking an estimator and without raising.
C18_MissingEvcValueIsAnErrorValue ==
    (EvcValueAbsentOrZero /\ mp_pc # "called") =>
        /\ mp_pc = "returned"
        /\ DOMAIN mp_result = {"error", "message"}
        /\ estimator_calls = <<>>

\* the call returned for an EVC result whose evc_value is zero and a
\* segment_info that parses
C18_Witness ==
    /\ mp_pc = "returned"
    /\ mp_evc_result = Parsed([segment_id |-> "s1", evc_value |-> RInt(0)])
    /\ mp_segment_info.form = "json"
    /\ mp_result.error = "evc_value_not_found"

\* min <= expected <= max
Ascending(t) == RLe(t.min, t.expected) /\ RLe(t.expected, t.max)

\* C19: in every result returned with potentials, min <= expected <= max
\* holds for the companies triple and for the acquisition_rate triple.
C19_TriplesAscending ==
    Succeeded =>
        /\ Ascending(mp_result.companies)
        /\ Ascending(mp_result.acquisition_rate)

\* C24: when the output of calculate_segment_potential is integrated and
\* scored, the market_size and the acquisition_probability normalized for
\* the segment are the company count and the acquisition rate the estimator
\* produced for it (a value of the respective triple) and the evc_value is
\* the EVC calculator's; none is replaced by the default 0.
ScoredAfterIntegration == Succeeded /\ prio_pc = "done"

C24_EstimatesReachTheScorer ==
    ScoredAfterIntegration =>
        \A k \in DOMAIN priority_scores :
            priority_scores[k].segment_id = mp_segment_id =>
                LET c == priority_scores[k].score_components
                    X == {"min", "expected", "max"}
                IN  /\ c.market_size.raw_value \in {mp_result.companies[x] : x \in X}
                    /\ c.acquisition_probability.raw_value \in
                          {mp_result.acquisition_rate[x] : x \in X}
                    /\ mp_segment_id = mp_evc_result.dict["segment_id"] =>
                          c.evc_value.raw_value = mp_result.evc_value

\* C26: calculate_evc on a parameter input that is unparseable or empty (the
\* parameter dictionary stays {}) or lacks some of the numeric parameters
\* still returns an EVCResult, computed with defaults for what is missing,
\* and never raises.
C26_MissingParametersDefaulted ==
    evc_pc = "done" =>
        /\ "raised" \notin DOMAIN evc_result
        /\ "evc_value" \in DOMAIN evc_result
        /\ evc_result.components.reference_price =
              Get(params_dict, "reference_price", RInt(0))

\* ========================================================================
\* Claims about the report assembler (checked under SpecReport)
\* ========================================================================
\* create_priority_report was called and has ended
ReportCallEnded == rp_pc \in {"done", "raised"}

\* the entries an argument gives for a segment, in the order given
EntriesFor(arg, id) ==
    {i \in DOMAIN arg.items : arg.items[i].segment_id = id}

\* the evaluation carries the strategy entry given for its segment, and
\* empty parts when none is given
StrategyPartAsGiven(e) ==
    IF EntriesFor(report_strategies, e.segment_id) = {}
    THEN e.strategy = "" /\ e.resource_allocation = "" /\ e.key_tactics = <<>>
    ELSE \E i \in EntriesFor(report_strategies, e.segment_id) :
            /\ e.strategy = report_strategies.items[i].approach
            /\ e.resource_allocation = report_strategies.items[i].resource_allocation
            /\ e.key_tactics = report_strategies.items[i].key_tactics

\* the evaluation carries the plan entry given for its segment, and the
\* empty map when none is given
PlanPartAsGiven(e) ==
    IF EntriesFor(report_plans, e.segment_id) = {}
    THEN DOMAIN e.action_plan = {}
    ELSE \E i \in EntriesFor(report_plans, e.segment_id) :
            e.action_plan = report_plans.items[i]

\* C20: the report is produced without failing and has one
\* segment_evaluations entry per score given, in the order given; a segment
\* without a strategy entry gets "" / "" / [] and a segment without an
\* action-plan entry gets {}, while the segments that have entries carry
\* them.
C20_OneEvaluationPerScore ==
    ReportCallEnded =>
        /\ rp_pc = "done"
        /\ Len(report.segment_evaluations) = Len(report_scores.items)
        /\ \A i \in 1..Len(report_scores.items) :
              LET e == report.segment_evaluations[i]
              IN  /\ e.segment_id = report_scores.items[i].segment_id
                  /\ e.priority_score = report_scores.items[i].priority_score
                  /\ StrategyPartAsGiven(e)
                  /\ PlanPartAsGiven(e)

\* ------------------------------------------------------------------------
\* C21: create_priority_report called twice with the same integrated
\* results, scores, strategies and action plans returns the same report both
\* times: the report is a function of the four arguments and holds no
\* timestamp or other value that depends on the run.
\* ------------------------------------------------------------------------
CalledTwice == rp_pc = "done" /\ "no_result" \notin DOMAIN earlier_report

C21_SameInputsSameReport ==
    CalledTwice =>
        /\ report = earlier_report
        /\ report = create_priority_report(report_segments, report_scores,
                                           report_strategies, report_plans)
        /\ DOMAIN report = {"title", "summary", "segment_evaluations",
                            "overall_strategy", "key_insights", "recommendations"}

\* two calls on score objects that the strategy loop wrote to
C21_Witness ==
    /\ CalledTwice
    /\ report_scores.form = "list"
    /\ \E i \in DOMAIN report.segment_evaluations :
          report.segment_evaluations[i].strategy = "approach"

\* C25: create_priority_report leaves its arguments as they were: the call
\* changes no field or value of the score, strategy and action-plan records
\* passed in (strategy, resource_allocation and key_tactics appear in the
\* returned report only).
C25_InputsUnchanged ==
    [][(rp_pc = "input" /\ rp_pc' # "input") =>
          /\ report_scores' = report_scores
          /\ report_strategies' = report_strategies
          /\ report_plans' = report_plans]_vars

\* ========================================================================
\* Further claims about run_workflow (checked under SpecWorkflow)
\* ========================================================================
\* the stage result that an exception of the agent call is converted into
FromException(result) ==
    "error" \in DOMAIN result /\ result["result"] = "agent call failed"

\* C28: _run_agent never raises; an exception of the agent call becomes a
\* result with a non-empty error field, which fails the run at that stage
\* (no later stage is invoked, the status is failed); a stage whose result
\* has no error field counts as succeeded.
C28_ExceptionFailsTheStage ==
    \A i \in DOMAIN history :
        FromException(history[i]) =>
            /\ history[i]["error"] # ""
            /\ i = Len(history)
            /\ results["status"] = "failed"

\* C29: every result run_workflow returns (success, a failing stage, or an
\* exception) carries workflow_id, started_at, completed_at and the trace_id
\* generated for the run.
C29_ReturnedResultCarriesTrace ==
    RunReturned =>
        /\ {"workflow_id", "started_at", "completed_at", "trace_id"}
              \subseteq DOMAIN results
        /\ results["trace_id"] = trace_id

\* ========================================================================
\* Claim about validate_formula (checked under SpecFormula)
\* ========================================================================
\* C30: for the segment ids s1..s4, the default base weights (R 1.0, Re 1.2,
\* Co 1.0, I 0.9) and any characteristics input, validate_formula accepts
\* the formula the customizer produced: is_valid is true, no issue is found.
Validated == fd_pc = "done" /\ "is_valid" \in DOMAIN validation_result

C30_CustomizedFormulaIsValid ==
    ( /\ Validated
      /\ fd_segment_id \in {<<"s", "1">>, <<"s", "2">>, <<"s", "3">>, <<"s", "4">>}
      /\ base_formula \in {EmptyDict, design_evc_formula} )
    => /\ validation_result.is_valid
       /\ validation_result.issues = {}

====
